---------------------------- MODULE Spec2Model ----------------------------
(***************************************************************************)
(* A model of the PDF text-extraction pipeline of src/src/pdf-parser.js:   *)
(* extractTextFromPDF, its two strategies (extractWithStandardMethod and   *)
(* extractWithOCR), the OCR reconstruction and the text normalizer         *)
(* (postProcessText).                                                      *)
(*                                                                         *)
(* A text is a sequence of characters; a character is a one-element        *)
(* string.  Characters outside ASCII are written by name ("e_acute",       *)
(* "bullet", "middot").                                                    *)
(***************************************************************************)
EXTENDS Integers, Sequences, FiniteSets, TLC

(***************************************************************************)
(* Characters and the character classes of the regular expressions.        *)
(***************************************************************************)
LowerCase == {"a", "b", "c", "d", "e", "f", "g", "h", "i", "j", "k", "l", "m",
              "n", "o", "p", "q", "r", "s", "t", "u", "v", "w", "x", "y", "z"}

UpperCase == {"A", "B", "C", "D", "E", "F", "G", "H", "I", "J", "K", "L", "M",
              "N", "O", "P", "Q", "R", "S", "T", "U", "V", "W", "X", "Y", "Z"}

Digits == {"0", "1", "2", "3", "4", "5", "6", "7", "8", "9"}

\* The characters of the range À-ÿ that the model uses.
Accented == {"e_acute", "E_acute"}

\* What String.prototype.trim removes and \s matches.
WhiteSpace == {" ", "\t", "\n", "\r"}

\* The line terminators of ^ and $ under the m flag.
LineTerminators == {"\n", "\r"}

\* [a-zA-ZÀ-ÿ0-9]
IsAlnum(c) == c \in LowerCase \cup UpperCase \cup Digits \cup Accented

\* \w
IsWord(c) == c \in LowerCase \cup UpperCase \cup Digits \cup {"_"}

\* \S
IsNonSpace(c) == c \notin WhiteSpace

\* [.\-_=•·]
DecorativeChars == {".", "-", "_", "=", "bullet", "middot"}

\* Case folding of the i flag.
ToLower(c) ==
    CASE c = "A" -> "a" [] c = "B" -> "b" [] c = "C" -> "c" [] c = "D" -> "d"
      [] c = "E" -> "e" [] c = "F" -> "f" [] c = "G" -> "g" [] c = "H" -> "h"
      [] c = "I" -> "i" [] c = "J" -> "j" [] c = "K" -> "k" [] c = "L" -> "l"
      [] c = "M" -> "m" [] c = "N" -> "n" [] c = "O" -> "o" [] c = "P" -> "p"
      [] c = "Q" -> "q" [] c = "R" -> "r" [] c = "S" -> "s" [] c = "T" -> "t"
      [] c = "U" -> "u" [] c = "V" -> "v" [] c = "W" -> "w" [] c = "X" -> "x"
      [] c = "Y" -> "y" [] c = "Z" -> "z" [] c = "E_acute" -> "e_acute"
      [] OTHER -> c

(***************************************************************************)
(* String helpers.                                                         *)
(***************************************************************************)
\* n copies of the character c.
Rep(c, n) == [i \in 1..n |-> c]

\* s.slice(a - 1, b): the characters a..b of s.
Slice(s, a, b) == IF a > b THEN <<>> ELSE [i \in 1..(b - a + 1) |-> s[a + i - 1]]

\* The index of the first character of s, at or after p, that is not in
\* class; Len(s) + 1 when there is none (1 <= p <= Len(s) + 1).
FirstNotIn(s, p, class) ==
    CHOOSE q \in p..(Len(s) + 1) :
        /\ q = Len(s) + 1 \/ s[q] \notin class
        /\ \A r \in p..(q - 1) : s[r] \in class

\* The index of the last character of s, at or before p, that is not in
\* class; 0 when there is none (0 <= p <= Len(s)).
LastNotIn(s, p, class) ==
    CHOOSE q \in 0..p :
        /\ q = 0 \/ s[q] \notin class
        /\ \A r \in (q + 1)..p : s[r] \in class

\* The number of consecutive characters of s, from p on, that are in class.
RunLength(s, p, class) == IF p > Len(s) THEN 0 ELSE FirstNotIn(s, p, class) - p

\* String.prototype.trim
Trim(s) ==
    Slice(s, FirstNotIn(s, 1, WhiteSpace), LastNotIn(s, Len(s), WhiteSpace))

\* The index of the first match at or after p of the expression whose match
\* at a position has length MatchLen(s, position), 0 for no match; Len(s) + 1
\* when there is none (1 <= p <= Len(s) + 1).
FirstMatch(s, p, MatchLen(_, _)) ==
    CHOOSE q \in p..(Len(s) + 1) :
        /\ q = Len(s) + 1 \/ MatchLen(s, q) > 0
        /\ \A r \in p..(q - 1) : MatchLen(s, r) = 0

\* s.split('\n') from p on: the lines of s, at least one.
RECURSIVE SplitLines(_, _)
SplitLines(s, p) ==
    LET q == FirstMatch(s, p, LAMBDA t, i : IF t[i] = "\n" THEN 1 ELSE 0)
    IN  IF q > Len(s) THEN <<Slice(s, p, Len(s))>>
        ELSE <<Slice(s, p, q - 1)>> \o SplitLines(s, q + 1)

\* lines.join('\n')
RECURSIVE JoinLines(_)
JoinLines(ls) ==
    IF Len(ls) = 0 THEN <<>>
    ELSE IF Len(ls) = 1 THEN ls[1]
    ELSE ls[1] \o <<"\n">> \o JoinLines(Tail(ls))

\* ^ under the m flag, before the character at p.
AtLineStart(s, p) == p = 1 \/ s[p - 1] \in LineTerminators

\* $ under the m flag, before the character at p.
AtLineEnd(s, p) == p = Len(s) + 1 \/ s[p] \in LineTerminators

(***************************************************************************)
(* Text Normalizer: postProcessText and its nine steps.  Each step is one  *)
(* String.prototype.replace with a global regular expression: the text is  *)
(* scanned from the left, a match is replaced and the scan resumes after   *)
(* the match (the characters of a match are not matched again).            *)
(***************************************************************************)
\* The length of the match of /^[^a-zA-ZÀ-ÿ0-9]{1,2}$/m at p, 0 when there is
\* none: the quantifier is greedy and the class also matches a newline.
NoiseMatchLen(s, p) ==
    IF ~AtLineStart(s, p) THEN 0
    ELSE IF p + 1 <= Len(s) /\ ~IsAlnum(s[p]) /\ ~IsAlnum(s[p + 1])
            /\ AtLineEnd(s, p + 2) THEN 2
    ELSE IF p <= Len(s) /\ ~IsAlnum(s[p]) /\ AtLineEnd(s, p + 1) THEN 1
    ELSE 0

\* Step 1: replace(/^[^a-zA-ZÀ-ÿ0-9]{1,2}$/gm, '')
RECURSIVE RemoveNoise(_, _)
RemoveNoise(s, p) ==
    LET q == FirstMatch(s, p, NoiseMatchLen)
    IN  IF q > Len(s) THEN Slice(s, p, Len(s))
        ELSE Slice(s, p, q - 1) \o RemoveNoise(s, q + NoiseMatchLen(s, q))

\* The length of the match of /(\w)-\n(\w)/ at p, 0 when there is none.
HyphenMatchLen(s, p) ==
    IF p + 3 <= Len(s) /\ IsWord(s[p]) /\ s[p + 1] = "-"
       /\ s[p + 2] = "\n" /\ IsWord(s[p + 3])
    THEN 4 ELSE 0

\* Step 2: replace(/(\w)-\n(\w)/g, '$1$2')
RECURSIVE JoinHyphens(_, _)
JoinHyphens(s, p) ==
    LET q == FirstMatch(s, p, HyphenMatchLen)
    IN  IF q > Len(s) THEN Slice(s, p, Len(s))
        ELSE Slice(s, p, q - 1) \o <<s[q], s[q + 3]>> \o JoinHyphens(s, q + 4)

\* The length of the match of /\n{4,}/ at p, 0 when there is none.
NewlinesMatchLen(s, p) ==
    IF p + 3 <= Len(s) /\ \A i \in 0..3 : s[p + i] = "\n"
    THEN RunLength(s, p, {"\n"}) ELSE 0

\* Step 3: replace(/\n{4,}/g, '\n\n\n')
RECURSIVE CollapseNewlines(_, _)
CollapseNewlines(s, p) ==
    LET q == FirstMatch(s, p, NewlinesMatchLen)
    IN  IF q > Len(s) THEN Slice(s, p, Len(s))
        ELSE Slice(s, p, q - 1) \o <<"\n", "\n", "\n">>
               \o CollapseNewlines(s, q + NewlinesMatchLen(s, q))

\* The length of the match of /[ \t]{3,}/ at p, 0 when there is none.
WideSpacesMatchLen(s, p) ==
    IF p + 2 <= Len(s) /\ \A i \in 0..2 : s[p + i] \in {" ", "\t"}
    THEN RunLength(s, p, {" ", "\t"}) ELSE 0

\* Step 4, first half: replace(/[ \t]{3,}/g, '    ')
RECURSIVE CollapseWideSpaces(_, _)
CollapseWideSpaces(s, p) ==
    LET q == FirstMatch(s, p, WideSpacesMatchLen)
    IN  IF q > Len(s) THEN Slice(s, p, Len(s))
        ELSE Slice(s, p, q - 1) \o <<" ", " ", " ", " ">>
               \o CollapseWideSpaces(s, q + WideSpacesMatchLen(s, q))

\* The length of the match of / {2}(?! )/ at p, 0 when there is none.
DoubleSpaceMatchLen(s, p) ==
    IF p + 1 <= Len(s) /\ s[p] = " " /\ s[p + 1] = " "
       /\ (p + 2 > Len(s) \/ s[p + 2] # " ")
    THEN 2 ELSE 0

\* Step 4, second half: replace(/ {2}(?! )/g, ' ')
RECURSIVE CollapseDoubleSpaces(_, _)
CollapseDoubleSpaces(s, p) ==
    LET q == FirstMatch(s, p, DoubleSpaceMatchLen)
    IN  IF q > Len(s) THEN Slice(s, p, Len(s))
        ELSE Slice(s, p, q - 1) \o <<" ">> \o CollapseDoubleSpaces(s, q + 2)

\* Step 5: replace(/[|]/g, 'l').replace(/\{/g, '(').replace(/\}/g, ')')
FixMisreads(s) ==
    [i \in 1..Len(s) |->
        CASE s[i] = "|" -> "l"
          [] s[i] = "{" -> "("
          [] s[i] = "}" -> ")"
          [] OTHER -> s[i]]

\* The length of the match of /^[.\-_=•·]{3,}$/m at p, 0 when there is none.
DecorativeMatchLen(s, p) ==
    IF p <= Len(s) /\ AtLineStart(s, p) /\ s[p] \in DecorativeChars
    THEN LET n == RunLength(s, p, DecorativeChars)
         IN  IF n >= 3 /\ AtLineEnd(s, p + n) THEN n ELSE 0
    ELSE 0

\* Step 6: replace(/^[.\-_=•·]{3,}$/gm, '')
\* A variant of RemoveDecorative that keeps the decorative lines.
RemoveDecorative_Keep(s, p) == Slice(s, p, Len(s))

RECURSIVE RemoveDecorative(_, _)
RemoveDecorative(s, p) ==
    LET q == FirstMatch(s, p, DecorativeMatchLen)
    IN  IF q > Len(s) THEN Slice(s, p, Len(s))
        ELSE Slice(s, p, q - 1) \o RemoveDecorative(s, q + DecorativeMatchLen(s, q))

\* Step 7: split('\n').map((line) => line.trim()).join('\n')
TrimLines(s) ==
    LET ls == SplitLines(s, 1)
    IN  JoinLines([i \in 1..Len(ls) |-> Trim(ls[i])])

\* Step 8: replace(/^\n+/, '').replace(/\n+$/, '')
StripBlankEnds(s) ==
    LET t == Slice(s, FirstNotIn(s, 1, {"\n"}), Len(s))
    IN  Slice(t, 1, LastNotIn(t, Len(t), {"\n"}))

\* The alternatives of the sectionHeaders expression, in its order: a word,
\* information(s) personnelle(s) with optional white space between ("pair"),
\* and personal info with optional white space between ("gap").
sectionHeaders == <<
    [kind |-> "word", a |-> <<"e", "x", "p", "e_acute", "r", "i", "e", "n", "c", "e">>, b |-> <<>>],
    [kind |-> "word", a |-> <<"e", "x", "p", "e", "r", "i", "e", "n", "c", "e">>, b |-> <<>>],
    [kind |-> "word", a |-> <<"f", "o", "r", "m", "a", "t", "i", "o", "n">>, b |-> <<>>],
    [kind |-> "word", a |-> <<"e", "d", "u", "c", "a", "t", "i", "o", "n">>, b |-> <<>>],
    [kind |-> "word", a |-> <<"c", "o", "m", "p", "e_acute", "t", "e", "n", "c", "e", "s">>, b |-> <<>>],
    [kind |-> "word", a |-> <<"s", "k", "i", "l", "l", "s">>, b |-> <<>>],
    [kind |-> "word", a |-> <<"l", "a", "n", "g", "u", "e", "s">>, b |-> <<>>],
    [kind |-> "word", a |-> <<"l", "a", "n", "g", "u", "a", "g", "e", "s">>, b |-> <<>>],
    [kind |-> "word", a |-> <<"c", "e", "r", "t", "i", "f", "i", "c", "a", "t", "i", "o", "n", "s">>, b |-> <<>>],
    [kind |-> "word", a |-> <<"p", "r", "o", "j", "e", "t", "s">>, b |-> <<>>],
    [kind |-> "word", a |-> <<"p", "r", "o", "j", "e", "c", "t", "s">>, b |-> <<>>],
    [kind |-> "word", a |-> <<"p", "r", "o", "f", "i", "l">>, b |-> <<>>],
    [kind |-> "word", a |-> <<"p", "r", "o", "f", "i", "l", "e">>, b |-> <<>>],
    [kind |-> "word", a |-> <<"r", "e_acute", "s", "u", "m", "e_acute">>, b |-> <<>>],
    [kind |-> "word", a |-> <<"s", "u", "m", "m", "a", "r", "y">>, b |-> <<>>],
    [kind |-> "word", a |-> <<"c", "o", "n", "t", "a", "c", "t">>, b |-> <<>>],
    [kind |-> "word", a |-> <<"r", "e_acute", "f", "e_acute", "r", "e", "n", "c", "e", "s">>, b |-> <<>>],
    [kind |-> "word", a |-> <<"r", "e", "f", "e", "r", "e", "n", "c", "e", "s">>, b |-> <<>>],
    [kind |-> "word", a |-> <<"o", "b", "j", "e", "c", "t", "i", "f">>, b |-> <<>>],
    [kind |-> "word", a |-> <<"o", "b", "j", "e", "c", "t", "i", "v", "e">>, b |-> <<>>],
    [kind |-> "word", a |-> <<"c", "e", "n", "t", "r", "e", "s", " ", "d", "'", "i", "n", "t", "e_acute", "r", "ê", "t">>, b |-> <<>>],
    [kind |-> "word", a |-> <<"h", "o", "b", "b", "i", "e", "s">>, b |-> <<>>],
    [kind |-> "pair", a |-> <<"i", "n", "f", "o", "r", "m", "a", "t", "i", "o", "n">>, b |-> <<"p", "e", "r", "s", "o", "n", "n", "e", "l", "l", "e">>],
    [kind |-> "gap", a |-> <<"p", "e", "r", "s", "o", "n", "a", "l">>, b |-> <<"i", "n", "f", "o">>]
>>

\* Whether word w stands at p in s, whatever the case (the i flag).
WordAt(s, p, w) ==
    /\ p + Len(w) - 1 <= Len(s)
    /\ \A i \in 1..Len(w) : ToLower(s[p + i - 1]) = w[i]

\* 1 when the optional letter c stands at p in s, else 0.
OptionalAt(s, p, c) == IF p <= Len(s) /\ ToLower(s[p]) = c THEN 1 ELSE 0

\* The length of the match of alternative h at p in s, 0 when there is none.
AlternativeMatchLen(s, p, h) ==
    IF ~WordAt(s, p, h.a) THEN 0
    ELSE IF h.kind = "word" THEN Len(h.a)
    ELSE LET q  == p + Len(h.a)
             q1 == IF h.kind = "pair" THEN q + OptionalAt(s, q, "s") ELSE q
             q2 == q1 + RunLength(s, q1, WhiteSpace)
         IN  IF ~WordAt(s, q2, h.b) THEN 0
             ELSE LET q3 == q2 + Len(h.b)
                      q4 == IF h.kind = "pair" THEN q3 + OptionalAt(s, q3, "s")
                            ELSE q3
                  IN  q4 - p

\* The length of the match of the sectionHeaders group at p: that of the
\* first alternative that matches, 0 when none does.
RECURSIVE HeaderMatchLenFrom(_, _, _)
HeaderMatchLenFrom(s, p, k) ==
    IF k > Len(sectionHeaders) THEN 0
    ELSE LET n == AlternativeMatchLen(s, p, sectionHeaders[k])
         IN  IF n > 0 THEN n ELSE HeaderMatchLenFrom(s, p, k + 1)

HeaderMatchLen(s, p) == HeaderMatchLenFrom(s, p, 1)

\* The length of the match of /(\S)\n(^(...))/im at p, 0 when there is none.
SeparatorMatchLen(s, p) ==
    IF p + 1 <= Len(s) /\ IsNonSpace(s[p]) /\ s[p + 1] = "\n"
    THEN LET n == HeaderMatchLen(s, p + 2) IN IF n > 0 THEN n + 2 ELSE 0
    ELSE 0

\* Step 9: replace(/(\S)\n(^(...))/gim, '$1\n\n$2')
RECURSIVE SeparateHeaders(_, _)
SeparateHeaders(s, p) ==
    LET q == FirstMatch(s, p, SeparatorMatchLen)
        n == SeparatorMatchLen(s, q)
    IN  IF q > Len(s) THEN Slice(s, p, Len(s))
        ELSE Slice(s, p, q - 1) \o <<s[q], "\n", "\n">>
               \o Slice(s, q + 2, q + n - 1) \o SeparateHeaders(s, q + n)

\* postProcessText(text)
postProcessText(text) ==
    IF Len(text) = 0 THEN <<>>
    ELSE LET s1 == RemoveNoise(text, 1)
             s2 == JoinHyphens(s1, 1)
             s3 == CollapseNewlines(s2, 1)
             s4 == CollapseDoubleSpaces(CollapseWideSpaces(s3, 1), 1)
             s5 == FixMisreads(s4)
             s6 == RemoveDecorative(s5, 1)
             s7 == TrimLines(s6)
             s8 == StripBlankEnds(s7)
         IN  SeparateHeaders(s8, 1)

(***************************************************************************)
(* Layout Text Extractor: the body of the page loop of                     *)
(* extractWithStandardMethod.  A text item is a record                     *)
(*   [str, x (transform[4]), y (transform[5]), t3 (transform[3]),          *)
(*    height, width]                                                       *)
(* with integer coordinates.  avgFontSize is a rational, kept as the pair  *)
(* of the sum of the font sizes and their number; every comparison with a  *)
(* multiple of it is made on integers, cross-multiplied.                   *)
(***************************************************************************)
Abs(n) == IF n < 0 THEN -n ELSE n

Min2(a, b) == IF a <= b THEN a ELSE b

Max2(a, b) == IF a >= b THEN a ELSE b

\* seq.filter(keep)
FilterSeq(seq, keep(_)) == SelectSeq(seq, keep)

\* seq.reduce((a, b) => a + b, 0) over the numbers value(seq[i]).
SumOver(seq, value(_)) ==
    LET RECURSIVE Upto(_)
        Upto(k) == IF k = 0 THEN 0 ELSE Upto(k - 1) + value(seq[k])
    IN  Upto(Len(seq))

\* The concatenation of the texts text(seq[i]), in order.
ConcatOver(seq, text(_)) ==
    LET RECURSIVE Upto(_)
        Upto(k) == IF k = 0 THEN <<>> ELSE Upto(k - 1) \o text(seq[k])
    IN  Upto(Len(seq))

\* Array.prototype.sort(compare) as a stable insertion sort: each element is
\* moved left past the elements that compare greater than it.
SortBy(seq, compare(_, _)) ==
    LET Insert(sorted, e) ==
            LET k == CHOOSE k \in 0..Len(sorted) :
                        /\ k = 0 \/ compare(sorted[k], e) <= 0
                        /\ \A j \in (k + 1)..Len(sorted) : compare(sorted[j], e) > 0
            IN  SubSeq(sorted, 1, k) \o <<e>> \o SubSeq(sorted, k + 1, Len(sorted))
        RECURSIVE Upto(_)
        Upto(k) == IF k = 0 THEN <<>> ELSE Insert(Upto(k - 1), seq[k])
    IN  Upto(Len(seq))

\* Math.abs(item.transform[3] || item.height || 10)
FontSizeOf(item) ==
    IF item.t3 # 0 THEN Abs(item.t3)
    ELSE IF item.height # 0 THEN Abs(item.height)
    ELSE 10

\* A variant of ExceedsLineThreshold without the minimum of 2.
ExceedsLineThreshold_NoMinimum(d, fontSum, fontCount) ==
    10 * d * fontCount > 4 * fontSum

\* d > lineThreshold, where lineThreshold = Math.max(avgFontSize * 0.4, 2) and
\* avgFontSize = fontSum / fontCount.
ExceedsLineThreshold(d, fontSum, fontCount) ==
    10 * d * fontCount > 4 * fontSum /\ d > 2

\* The comparison of the sort of the items: top to bottom, then left to right.
CompareItems(a, b, fontSum, fontCount) ==
    LET yDiff == b.y - a.y
    IN  IF ExceedsLineThreshold(Abs(yDiff), fontSum, fontCount) THEN yDiff
        ELSE a.x - b.x

\* The fold of the sorted items into lines: a line is [y, items, fontSize]
\* (currentLine.y === null is the flag isNull).
GroupIntoLines(sortedItems, fontSum, fontCount) ==
    LET Entry(item) == [x |-> item.x, text |-> item.str, width |-> item.width,
                        fontSize |-> FontSizeOf(item)]
        \* The state of the loop: the finished lines and currentLine.
        Step(st, item) ==
            LET fontSize == FontSizeOf(item)
                fresh == st.cur.isNull \/
                         ExceedsLineThreshold(Abs(st.cur.y - item.y), fontSum, fontCount)
                lines1 == IF fresh /\ Len(st.cur.items) > 0
                          THEN Append(st.lines, st.cur) ELSE st.lines
                cur1 == IF fresh
                        THEN [isNull |-> FALSE, y |-> item.y, items |-> <<>>,
                              fontSize |-> fontSize]
                        ELSE st.cur
            IN  [lines |-> lines1,
                 cur |-> [cur1 EXCEPT !.items = Append(cur1.items, Entry(item)),
                                      !.fontSize = Max2(cur1.fontSize, fontSize)]]
        RECURSIVE Upto(_)
        Upto(k) ==
            IF k = 0
            THEN [lines |-> <<>>,
                  cur |-> [isNull |-> TRUE, y |-> 0, items |-> <<>>, fontSize |-> 0]]
            ELSE Step(Upto(k - 1), sortedItems[k])
        last == Upto(Len(sortedItems))
    IN  IF Len(last.cur.items) > 0 THEN Append(last.lines, last.cur)
        ELSE last.lines

\* A variant of buildLineText whose wide gap begins at 6 spaceWidth.
buildLineText_Inclusive(items, fontSum, fontCount) ==
    LET Sep(j) ==
            LET gap == items[j].x - (items[j - 1].x + items[j - 1].width)
            IN  IF 5 * gap * fontCount >= 9 * fontSum THEN <<" ", " ", " ", " ">>
                ELSE IF 20 * gap * fontCount > 3 * fontSum THEN <<" ">>
                ELSE <<>>
        RECURSIVE Upto(_)
        Upto(j) ==
            IF j = 0 THEN <<>>
            ELSE Upto(j - 1) \o (IF j > 1 THEN Sep(j) ELSE <<>>) \o items[j].text
    IN  Upto(Len(items))

\* buildLineText(items, avgFontSize): with spaceWidth = avgFontSize * 0.3, four
\* spaces for a gap above 6 spaceWidth, one above 0.5 spaceWidth, else none.
buildLineText(items, fontSum, fontCount) ==
    LET Sep(j) ==
            LET gap == items[j].x - (items[j - 1].x + items[j - 1].width)
            IN  IF 5 * gap * fontCount > 9 * fontSum THEN <<" ", " ", " ", " ">>
                ELSE IF 20 * gap * fontCount > 3 * fontSum THEN <<" ">>
                ELSE <<>>
        RECURSIVE Upto(_)
        Upto(j) ==
            IF j = 0 THEN <<>>
            ELSE Upto(j - 1) \o (IF j > 1 THEN Sep(j) ELSE <<>>) \o items[j].text
    IN  Upto(Len(items))

\* line.items.sort((a, b) => a.x - b.x)
SortLineItems(line) == SortBy(line.items, LAMBDA a, b : a.x - b.x)

\* The sum of the x of the items of a line (avgX is this over their number).
SumX(line) == SumOver(line.items, LAMBDA it : it.x)

\* isTwoColumn: more than 3 lines lean left (avgX < midPage * 0.6), more than
\* 3 lean right (avgX > midPage * 0.8), and min / max of the two > 0.25.
IsTwoColumn(lines, pageWidth) ==
    LET IsLeft(line)  == 10 * SumX(line) < 3 * pageWidth * Len(line.items)
        IsRight(line) == ~IsLeft(line) /\ 10 * SumX(line) > 4 * pageWidth * Len(line.items)
        leftCount  == Len(SelectSeq(lines, IsLeft))
        rightCount == Len(SelectSeq(lines, IsRight))
    IN  /\ leftCount > 3
        /\ rightCount > 3
        /\ 4 * Min2(leftCount, rightCount) > Max2(leftCount, rightCount)

\* if (text.trim()) pageText += text.trim() + '\n'
EmitLine(text) == IF Len(Trim(text)) > 0 THEN Trim(text) \o <<"\n">> ELSE <<>>

\* A variant of ColumnOf whose left column ends at a quarter of the page.
ColumnOf_Quarter(line, pageWidth) ==
    IF 4 * SumX(line) < pageWidth * Len(line.items) THEN "left" ELSE "right"

\* The bucket of a line of a two-column page: "full", "left" or "right".
ColumnOf(line, pageWidth) ==
    LET xs   == {line.items[i].x : i \in 1..Len(line.items)}
        ends == {line.items[i].x + line.items[i].width : i \in 1..Len(line.items)}
        minX == CHOOSE v \in xs : \A w \in xs : v <= w
        maxX == CHOOSE v \in ends : \A w \in ends : v >= w
    IN  IF 10 * (maxX - minX) > 6 * pageWidth THEN "full"
        ELSE IF 20 * SumX(line) < 7 * pageWidth * Len(line.items) THEN "left"
        ELSE "right"

\* A variant of TwoColumnText that separates the full-width lines from what
\* follows only when the left column has lines.
TwoColumnText_LeftOnly(lines, pageWidth, fontSum, fontCount) ==
    LET Text(line) == buildLineText(SortLineItems(line), fontSum, fontCount)
        Emit(line) == EmitLine(Text(line))
        fullWidthLines == SelectSeq(lines, LAMBDA l : ColumnOf(l, pageWidth) = "full")
        pureLeftLines  == SelectSeq(lines, LAMBDA l : ColumnOf(l, pageWidth) = "left")
        rightLines     == SelectSeq(lines, LAMBDA l : ColumnOf(l, pageWidth) = "right")
    IN  ConcatOver(fullWidthLines, Emit)
          \o (IF Len(fullWidthLines) > 0 /\ Len(pureLeftLines) > 0
              THEN <<"\n">> ELSE <<>>)
          \o ConcatOver(pureLeftLines, Emit)
          \o (IF Len(pureLeftLines) > 0 /\ Len(rightLines) > 0
              THEN <<"\n">> ELSE <<>>)
          \o ConcatOver(rightLines, Emit)

\* pageText of a two-column page: the full-width lines, the left column, the
\* right column, a blank line between two groups as the code places it.
TwoColumnText(lines, pageWidth, fontSum, fontCount) ==
    LET Text(line) == buildLineText(SortLineItems(line), fontSum, fontCount)
        Emit(line) == EmitLine(Text(line))
        fullWidthLines == SelectSeq(lines, LAMBDA l : ColumnOf(l, pageWidth) = "full")
        pureLeftLines  == SelectSeq(lines, LAMBDA l : ColumnOf(l, pageWidth) = "left")
        rightLines     == SelectSeq(lines, LAMBDA l : ColumnOf(l, pageWidth) = "right")
    IN  ConcatOver(fullWidthLines, Emit)
          \o (IF Len(fullWidthLines) > 0
                 /\ (Len(pureLeftLines) > 0 \/ Len(rightLines) > 0)
              THEN <<"\n">> ELSE <<>>)
          \o ConcatOver(pureLeftLines, Emit)
          \o (IF Len(pureLeftLines) > 0 /\ Len(rightLines) > 0
              THEN <<"\n">> ELSE <<>>)
          \o ConcatOver(rightLines, Emit)

\* pageText of a single-column page: the lines in order.
SingleColumnText(lines, fontSum, fontCount) ==
    ConcatOver(lines,
        LAMBDA line : EmitLine(buildLineText(SortLineItems(line), fontSum, fontCount)))

\* The page-break marker '\n---\n'.
PageBreak == <<"\n", "-", "-", "-", "\n">>

\* What one turn of the loop of extractWithStandardMethod appends to fullText
\* for page i of numPages whose text content holds textItems: nothing when no
\* item has text (continue), else the page text and, but for the last page,
\* the page-break marker.
StandardPageContribution(textItems, pageWidth, i, numPages) ==
    LET items == SelectSeq(textItems, LAMBDA item : Len(Trim(item.str)) > 0)
        fontSum   == SumOver(items, FontSizeOf)
        fontCount == Len(items)
        sortedItems == SortBy(items,
                          LAMBDA a, b : CompareItems(a, b, fontSum, fontCount))
        lines == GroupIntoLines(sortedItems, fontSum, fontCount)
        pageText == IF IsTwoColumn(lines, pageWidth)
                    THEN TwoColumnText(lines, pageWidth, fontSum, fontCount)
                    ELSE SingleColumnText(lines, fontSum, fontCount)
    IN  IF Len(textItems) = 0 \/ Len(items) = 0 THEN <<>>
        ELSE pageText \o (IF i < numPages THEN PageBreak ELSE <<>>)

(***************************************************************************)
(* OCR reconstruction.  An OCR result is [text, blocks]; a block is        *)
(* [paragraphs], a paragraph [lines], a line [words], a word               *)
(* [text, confidence].  A missing (null) list is the empty sequence: the   *)
(* code skips the one and loops zero times over the other.                 *)
(***************************************************************************)
\* The confidence a word must exceed to be kept.
MinConfidence == 30

\* A variant of OcrLineText that keeps the words of confidence 30 too.
OcrLineText_AtLeast(line) ==
    LET kept == SelectSeq(line.words,
                   LAMBDA w : w.confidence >= MinConfidence /\ Len(Trim(w.text)) > 0)
        RECURSIVE Upto(_)
        Upto(k) ==
            IF k = 0 THEN <<>>
            ELSE LET before == Upto(k - 1)
                 IN  before \o (IF Len(before) > 0 THEN <<" ">> ELSE <<>>)
                       \o Trim(kept[k].text)
    IN  Upto(Len(kept))

\* The text of one line: its kept words, trimmed, joined by single spaces.
OcrLineText(line) ==
    LET kept == SelectSeq(line.words,
                   LAMBDA w : w.confidence > MinConfidence /\ Len(Trim(w.text)) > 0)
        RECURSIVE Upto(_)
        Upto(k) ==
            IF k = 0 THEN <<>>
            ELSE LET before == Upto(k - 1)
                 IN  before \o (IF Len(before) > 0 THEN <<" ">> ELSE <<>>)
                       \o Trim(kept[k].text)
    IN  Upto(Len(kept))

\* The text of one paragraph: its non-blank lines, each followed by '\n'.
OcrParagraphText(paragraph) ==
    ConcatOver(paragraph.lines, LAMBDA line : EmitLine(OcrLineText(line)))

\* reconstructTextFromOCRData(data)
reconstructTextFromOCRData(data) ==
    LET EmitParagraph(paragraph) ==
            LET paraText == OcrParagraphText(paragraph)
            IN  IF Len(Trim(paraText)) > 0 THEN Trim(paraText) \o <<"\n", "\n">>
                ELSE <<>>
        result == ConcatOver(data.blocks,
                     LAMBDA block : ConcatOver(block.paragraphs, EmitParagraph))
    IN  IF Len(data.blocks) > 0 /\ Len(result) > 0 THEN result ELSE data.text

\* A variant of OcrPageContribution that leaves out the page-break marker.
OcrPageContribution_NoMarker(data, i, numPages) ==
    IF Len(Trim(data.text)) > 0 THEN reconstructTextFromOCRData(data) ELSE <<>>

\* What one turn of the loop of extractWithOCR appends to fullText for page i
\* of numPages whose recognition gave data.
OcrPageContribution(data, i, numPages) ==
    (IF Len(Trim(data.text)) > 0 THEN reconstructTextFromOCRData(data) ELSE <<>>)
      \o (IF i < numPages THEN PageBreak ELSE <<>>)

(***************************************************************************)
(* The documents of the model.  A page is [width, items, ocr]: the width   *)
(* of its viewport at scale 1, the items of its text content, and the      *)
(* result the recognizer gives for its image.                              *)
(***************************************************************************)
\* A page of text in one column: a title, a section header and two lines of
\* two runs each, more than 80 characters in all.
TextPage ==
    [width |-> 600,
     items |-> <<
        [str |-> <<"J", "e", "a", "n", " ", "D", "u", "p", "o", "n", "t">>, x |-> 40, y |-> 760, t3 |-> 18, height |-> 0, width |-> 120],
        [str |-> <<"E", "x", "p", "e", "r", "i", "e", "n", "c", "e">>, x |-> 40, y |-> 720, t3 |-> 12, height |-> 0, width |-> 80],
        [str |-> <<"2", "0", "1", "9", " ", "A", "c", "m", "e">>, x |-> 40, y |-> 700, t3 |-> 10, height |-> 0, width |-> 60],
        [str |-> <<"L", "e", "a", "d", " ", "d", "e", "v", "e", "l", "o", "p", "e", "r", " ", "o", "f", " ", "t", "h", "e", " ", "b", "i", "l", "l", "i", "n", "g", " ", "t", "e", "a", "m">>, x |-> 104, y |-> 700, t3 |-> 10, height |-> 0, width |-> 200],
        [str |-> <<"2", "0", "1", "5", " ", "I", "n", "i", "t", "e", "c", "h">>, x |-> 40, y |-> 686, t3 |-> 10, height |-> 0, width |-> 70],
        [str |-> <<"S", "o", "f", "t", "w", "a", "r", "e", " ", "e", "n", "g", "i", "n", "e", "e", "r", ",", " ", "p", "a", "y", "m", "e", "n", "t", "s">>, x |-> 330, y |-> 686, t3 |-> 10, height |-> 0, width |-> 160],
        [str |-> <<" ", " ">>, x |-> 40, y |-> 670, t3 |-> 10, height |-> 0, width |-> 8] >>,
     ocr |-> [text |-> <<"J", "e", "a", "n", " ", "D", "u", "p", "o", "n", "t", "\n", "E", "x", "p", "e", "r", "i", "e", "n", "c", "e", "\n">>, blocks |-> <<>>]]

\* A page with a few characters of text over a scanned image: the standard
\* path finds less than 80 characters, the recognizer a structured result
\* with words of low and of high confidence.
ShortPage ==
    [width |-> 600,
     items |-> << [str |-> <<"S", "c", "a", "n">>, x |-> 40, y |-> 760, t3 |-> 0, height |-> 12, width |-> 30], [str |-> <<"1", "2">>, x |-> 72, y |-> 761, t3 |-> 0, height |-> 12, width |-> 12] >>,
     ocr |-> [text |-> <<"~", " ", "J", "e", "a", "n", " ", "D", "u", "p", "o", "n", "t", "\n", "S", "k", "i", "l", "l", "s", " ", "|", "\n", "T", "L", "A", "\n">>,
              blocks |-> <<
                [paragraphs |-> <<
                    [lines |-> <<
                        [words |-> << [text |-> <<"~">>, confidence |-> 10], [text |-> <<"J", "e", "a", "n">>, confidence |-> 45], [text |-> <<"D", "u", "p", "o", "n", "t">>, confidence |-> 92] >>],
                        [words |-> << [text |-> <<"S", "k", "i", "l", "l", "s">>, confidence |-> 80], [text |-> <<"|">>, confidence |-> 30] >>] >>],
                    [lines |-> << [words |-> << [text |-> <<" ", "T", "L", "A">>, confidence |-> 88] >>] >>] >>] >>]]

\* A scanned page: no text content, a recognition result without blocks.
ScanPage ==
    [width |-> 600,
     items |-> <<>>,
     ocr |-> [text |-> <<"P", "r", "o", "f", "i", "l", "\n", "\n", "\n", "\n", "\n", "I", "n", "g", "e", "-", "\n", "n", "i", "e", "u", "r", " ", " ", " ", " ", "{", "Q", "A", "}", "\n">>, blocks |-> <<>>]]

\* A blank page: no text content and nothing recognized.
BlankPage ==
    [width |-> 600,
     items |-> << [str |-> <<" ">>, x |-> 40, y |-> 700, t3 |-> 0, height |-> 0, width |-> 4] >>,
     ocr |-> [text |-> <<>>, blocks |-> <<>>]]

\* A page that is a long rule of dashes over one line of text: 79 characters
\* and a newline before the normalizer, which removes the rule.
RulePage ==
    [width |-> 600,
     items |-> << [str |-> Rep("-", 71), x |-> 20, y |-> 700, t3 |-> 10,
                   height |-> 0, width |-> 500],
                  [str |-> <<"C", "o", "n", "t", "a", "c", "t">>, x |-> 20, y |-> 680, t3 |-> 10, height |-> 0, width |-> 50] >>,
     ocr |-> [text |-> <<"C", "o", "n", "t", "a", "c", "t", "\n">>, blocks |-> <<>>]]

PageKinds == {"text", "short", "scan", "blank", "rule"}

PageOf(kind) ==
    CASE kind = "text"  -> TextPage
      [] kind = "short" -> ShortPage
      [] kind = "scan"  -> ScanPage
      [] kind = "blank" -> BlankPage
      [] kind = "rule"  -> RulePage

\* The largest number of pages of a document.
MaxPages == 2

\* The largest number of reports the recognizer makes to the logger in a run.
MaxLoggerCalls == 1

\* MIN_TEXT_THRESHOLD
MIN_TEXT_THRESHOLD == 80

(***************************************************************************)
(* The run of extractTextFromPDF(file, onProgress).                        *)
(*                                                                         *)
(*   pages         the pages of the document in the file                   *)
(*   hasProgress   whether the caller gave an onProgress consumer          *)
(*   pc            the await the run is suspended at, or its end           *)
(*   numPages      pdf.numPages, read once the document is loaded          *)
(*   i             the page of the loop in progress                        *)
(*   standardText  fullText of extractWithStandardMethod                   *)
(*   ocrText       fullText of extractWithOCR                              *)
(*   currentPage   currentPage of extractWithOCR, read by the logger       *)
(*   worker        the recognizer: "none", "alive" or "terminated"         *)
(*   failed        whether the try block of extractWithOCR threw           *)
(*   canvas        per page, its rendered image: "none", "live" (it holds  *)
(*                 its pixels) or "released" (width and height set to 0)   *)
(*   events        the ProgressEvents delivered to the consumer, in order  *)
(*   log           the asynchronous operations called and settled          *)
(*   loggerCalls   the number of reports the recognizer made to the logger *)
(*   outcome       what the run gave its caller                            *)
(*   input         the arguments of a function of the module applied on    *)
(*                 its own (see the specifications of the functions)       *)
(*   output        the result of that function                             *)
(***************************************************************************)
VARIABLES pages, hasProgress, pc, numPages, i, standardText, ocrText,
          currentPage, worker, failed, canvas, events, log, loggerCalls,
          outcome, input, output, state, view, uploads

vars == <<pages, hasProgress, pc, numPages, i, standardText, ocrText,
          currentPage, worker, failed, canvas, events, log, loggerCalls,
          outcome, input, output, state, view, uploads>>

\* The result of a function before and after it is applied to input.
NotApplied == [applied |-> FALSE, value |-> <<>>]

Result(value) == [applied |-> TRUE, value |-> value]

\* The documents of one to MaxPages pages.
Documents == UNION {[1..n -> PageKinds] : n \in 1..MaxPages}

\* A ProgressEvent; page and totalPages are -1 when the event has none.
ProgressEvent(phase, progress, page, totalPages) ==
    [phase |-> phase, progress |-> progress, page |-> page,
     totalPages |-> totalPages]

\* A variant of Delivered that hands the consumer the latest event first.
Delivered_LatestFirst(event) == IF hasProgress THEN <<event>> \o events ELSE events

\* if (onProgress) onProgress(event): the events delivered after the call.
Delivered(event) == IF hasProgress THEN Append(events, event) ELSE events

\* Math.round((a / b) * 100) for a >= 0 and b > 0.
RoundPercent(a, b) == (200 * a + b) \div (2 * b)

\* An entry of the log: operation op on page (0: on the document) is called,
\* resolves or rejects, or the synchronous call of op throws.
Called(op, page) == [what |-> "call", op |-> op, page |-> page]

Settled(op, page, ok) ==
    [what |-> IF ok THEN "resolve" ELSE "reject", op |-> op, page |-> page]

Thrown(op, page) == [what |-> "throw", op |-> op, page |-> page]

Pending == [status |-> "pending", text |-> <<>>, numPages |-> 0, method |-> "none"]

Rejected == [status |-> "rejected", text |-> <<>>, numPages |-> 0, method |-> "none"]

Returned(text, n, method) ==
    [status |-> "returned", text |-> text, numPages |-> n, method |-> method]

\* state of pdf-generator.js, of its fields those of the upload, as it is
\* declared and as resetFile leaves it; uploadedFile is the name of the file.
NoFileState ==
    [uploadedFile |-> "null", extractedText |-> <<>>, numPages |-> 0,
     isImageBased |-> FALSE]

\* The elements of step 1 as resetFile leaves them, the text element empty:
\* whether each has the class 'hidden', whether the Next button is disabled,
\* and the text content of extractedTextEl.
NoFileView ==
    [dropZoneHidden |-> FALSE, filePreviewHidden |-> TRUE,
     extractedHidden |-> FALSE, manualHidden |-> TRUE, nextDisabled |-> TRUE,
     extractedTextEl |-> <<>>]

Init ==
    /\ state = NoFileState
    /\ view = NoFileView
    /\ uploads = <<>>
    /\ pages \in Documents
    /\ hasProgress \in BOOLEAN
    /\ pc = "idle"
    /\ numPages = 0
    /\ i = 0
    /\ standardText = <<>>
    /\ ocrText = <<>>
    /\ currentPage = 0
    /\ worker = "none"
    /\ failed = FALSE
    /\ canvas = [k \in 1..MaxPages |-> "none"]
    /\ events = <<>>
    /\ log = <<>>
    /\ loggerCalls = 0
    /\ outcome = Pending
    /\ input = <<>>
    /\ output = NotApplied

\* A variant of LoadedNumPages that counts only the pages with text content.
LoadedNumPages_TextPages(doc) ==
    Cardinality({k \in DOMAIN doc : Len(PageOf(doc[k]).items) > 0})

\* pdf.numPages of the document loaded from the file.
LoadedNumPages(doc) == Len(doc)

\* The run rejects: the error reaches the caller of extractTextFromPDF.
Reject ==
    /\ pc' = "rejected"
    /\ outcome' = Rejected

\* A variant of LoadFailure that tries the operation once more before it
\* gives up.
LoadFailure_Retry(op) ==
    IF Cardinality({k \in 1..Len(log) : log[k] = Called(op, 0)}) < 2
    THEN /\ log' = log \o <<Settled(op, 0, FALSE), Called(op, 0)>>
         /\ UNCHANGED <<pc, outcome>>
    ELSE /\ Reject
         /\ log' = Append(log, Settled(op, 0, FALSE))

\* The awaited load operation op rejects: the rejection leaves
\* extractTextFromPDF, nothing is tried again.
LoadFailure(op) ==
    /\ Reject
    /\ log' = Append(log, Settled(op, 0, FALSE))

\* extractTextFromPDF is called: await file.arrayBuffer().
Start ==
    /\ pc = "idle"
    /\ pc' = "arrayBuffer"
    /\ log' = Append(log, Called("arrayBuffer", 0))
    /\ UNCHANGED <<state, view, uploads, input, output, pages, hasProgress, numPages, i, standardText, ocrText,
                   currentPage, worker, failed, canvas, events, loggerCalls,
                   outcome>>

\* file.arrayBuffer() settles; on success await getDocument(...).promise.
ArrayBufferSettles ==
    /\ pc = "arrayBuffer"
    /\ \E ok \in BOOLEAN :
        IF ok
        THEN /\ pc' = "getDocument"
             /\ log' = log \o <<Settled("arrayBuffer", 0, TRUE),
                                Called("getDocument", 0)>>
             /\ UNCHANGED outcome
        ELSE LoadFailure("arrayBuffer")
    /\ UNCHANGED <<state, view, uploads, input, output, pages, hasProgress, numPages, i, standardText, ocrText,
                   currentPage, worker, failed, canvas, events, loggerCalls>>

\* getDocument settles; on success numPages is read, { phase: 'text',
\* progress: 0 } is reported and extractWithStandardMethod awaits
\* pdf.getPage(1).
GetDocumentSettles ==
    /\ pc = "getDocument"
    /\ \E ok \in BOOLEAN, throws \in BOOLEAN :
        /\ throws => ok /\ hasProgress
        /\ IF ~ok
           THEN /\ LoadFailure("getDocument")
                /\ UNCHANGED <<numPages, i, events>>
           ELSE /\ numPages' = LoadedNumPages(pages)
                /\ events' = Delivered(ProgressEvent("text", 0, -1, -1))
                /\ IF throws
                   THEN /\ Reject
                        /\ log' = log \o <<Settled("getDocument", 0, TRUE),
                                           Thrown("onProgress", 0)>>
                        /\ UNCHANGED i
                   ELSE /\ i' = 1
                        /\ pc' = IF 1 <= numPages' THEN "stdGetPage" ELSE "stdReturn"
                        /\ log' = log \o <<Settled("getDocument", 0, TRUE)>>
                                      \o (IF 1 <= numPages'
                                          THEN <<Called("getPage", 1)>> ELSE <<>>)
                        /\ UNCHANGED outcome
    /\ UNCHANGED <<state, view, uploads, input, output, pages, hasProgress, standardText, ocrText, currentPage,
                   worker, failed, canvas, loggerCalls>>

\* A variant of StdGetPageSettles that takes a page that cannot be loaded
\* for a page without text and leaves the rest to the OCR path.
StdGetPageSettles_Fallback ==
    /\ pc = "stdGetPage"
    /\ \E ok \in BOOLEAN :
        IF ok
        THEN /\ pc' = "stdGetTextContent"
             /\ log' = log \o <<Settled("getPage", i, TRUE),
                                Called("getTextContent", i)>>
        ELSE /\ pc' = "createWorker"
             /\ log' = log \o <<Settled("getPage", i, FALSE),
                                Called("createWorker", 0)>>
    /\ UNCHANGED <<state, view, uploads, input, output, pages, hasProgress, numPages, i, standardText,
                   ocrText, currentPage, worker, failed, canvas, events,
                   loggerCalls, outcome>>

\* pdf.getPage(i) settles in the standard path; on success await
\* page.getTextContent(...).
StdGetPageSettles ==
    /\ pc = "stdGetPage"
    /\ \E ok \in BOOLEAN :
        IF ok
        THEN /\ pc' = "stdGetTextContent"
             /\ log' = log \o <<Settled("getPage", i, TRUE),
                                Called("getTextContent", i)>>
             /\ UNCHANGED outcome
        ELSE /\ Reject
             /\ log' = Append(log, Settled("getPage", i, FALSE))
    /\ UNCHANGED <<state, view, uploads, input, output, pages, hasProgress, numPages, i, standardText, ocrText,
                   currentPage, worker, failed, canvas, events, loggerCalls>>

\* page.getTextContent settles; on success the page's text is added to
\* fullText and the loop goes to the next page, or ends and returns fullText.
StdGetTextContentSettles ==
    /\ pc = "stdGetTextContent"
    /\ \E ok \in BOOLEAN :
        IF ok
        THEN /\ standardText' = standardText \o
                    StandardPageContribution(PageOf(pages[i]).items,
                                             PageOf(pages[i]).width, i, numPages)
             /\ i' = i + 1
             /\ pc' = IF i + 1 <= numPages THEN "stdGetPage" ELSE "stdReturn"
             /\ log' = log \o <<Settled("getTextContent", i, TRUE)>>
                           \o (IF i + 1 <= numPages
                               THEN <<Called("getPage", i + 1)>> ELSE <<>>)
             /\ UNCHANGED outcome
        ELSE /\ Reject
             /\ log' = Append(log, Settled("getTextContent", i, FALSE))
             /\ UNCHANGED <<standardText, i>>
    /\ UNCHANGED <<state, view, uploads, input, output, pages, hasProgress, numPages, ocrText, currentPage, worker,
                   failed, canvas, events, loggerCalls>>

\* A variant of MeetsThreshold that measures the normalized text.
MeetsThreshold_Cleaned(text) ==
    Len(Trim(postProcessText(text))) >= MIN_TEXT_THRESHOLD

\* A variant of MeetsThreshold that measures the text untrimmed.
MeetsThreshold_Untrimmed(text) == Len(text) >= MIN_TEXT_THRESHOLD

\* standardText.trim().length >= MIN_TEXT_THRESHOLD
MeetsThreshold(text) == Len(Trim(text)) >= MIN_TEXT_THRESHOLD

\* extractWithStandardMethod has returned: { phase: 'text', progress: 100 } is
\* reported; with enough text the outcome is returned, else 'ocr-init' is
\* reported and extractWithOCR awaits createWorker(...).
Decide ==
    /\ pc = "stdReturn"
    /\ \E throws100 \in BOOLEAN, throwsInit \in BOOLEAN :
        /\ throws100 \/ throwsInit => hasProgress
        /\ ~(throws100 /\ throwsInit)
        /\ throwsInit => ~MeetsThreshold(standardText)
        /\ LET done100 == Delivered(ProgressEvent("text", 100, -1, -1))
               init == ProgressEvent("ocr-init", 0, 0, numPages)
           IN  IF throws100
               THEN /\ events' = done100
                    /\ Reject
                    /\ log' = Append(log, Thrown("onProgress", 0))
               ELSE IF MeetsThreshold(standardText)
               THEN /\ events' = done100
                    /\ pc' = "done"
                    /\ outcome' = Returned(postProcessText(standardText),
                                           numPages, "text")
                    /\ UNCHANGED log
               ELSE /\ events' = IF hasProgress THEN Append(done100, init)
                                 ELSE done100
                    /\ IF throwsInit
                       THEN /\ Reject
                            /\ log' = Append(log, Thrown("onProgress", 0))
                       ELSE /\ pc' = "createWorker"
                            /\ log' = Append(log, Called("createWorker", 0))
                            /\ UNCHANGED outcome
    /\ UNCHANGED <<state, view, uploads, input, output, pages, hasProgress, numPages, i, standardText, ocrText,
                   currentPage, worker, failed, canvas, loggerCalls>>

\* A variant of EnterFinally that swallows the exception of the try block.
EnterFinally_Swallow(threw, settled) ==
    /\ pc' = "terminate"
    /\ failed' = FALSE
    /\ log' = log \o settled \o <<Called("terminate", 0)>>

\* The finally block of extractWithOCR is entered: await worker.terminate().
\* threw tells whether the try block is left by an exception.
EnterFinally(threw, settled) ==
    /\ pc' = "terminate"
    /\ failed' = threw
    /\ log' = log \o settled \o <<Called("terminate", 0)>>

\* A variant of OcrLoopHead whose loop stops before the last page.
OcrLoopHead_SkipLast(k, settled, throws) ==
    IF k < numPages
    THEN /\ i' = k
         /\ currentPage' = k
         /\ events' = Delivered(ProgressEvent("ocr-page",
                                   RoundPercent(k - 1, numPages), k, numPages))
         /\ IF throws
            THEN /\ pc' = "terminate"
                 /\ failed' = TRUE
                 /\ log' = log \o settled \o <<Thrown("onProgress", k),
                                                 Called("terminate", 0)>>
            ELSE /\ pc' = "ocrGetPage"
                 /\ log' = log \o settled \o <<Called("ocrGetPage", k)>>
                 /\ UNCHANGED failed
    ELSE /\ ~throws
         /\ i' = k
         /\ pc' = "terminate"
         /\ failed' = FALSE
         /\ log' = log \o settled \o <<Called("terminate", 0)>>
         /\ UNCHANGED <<currentPage, events>>

\* The head of the loop of extractWithOCR for page k: currentPage is set,
\* 'ocr-page' is reported, then await pdf.getPage(k); past the last page the
\* try block ends.  settled is what the log gains first.
OcrLoopHead(k, settled, throws) ==
    IF k <= numPages
    THEN /\ i' = k
         /\ currentPage' = k
         /\ events' = Delivered(ProgressEvent("ocr-page",
                                   RoundPercent(k - 1, numPages), k, numPages))
         /\ IF throws
            THEN EnterFinally(TRUE, Append(settled, Thrown("onProgress", k)))
            ELSE /\ pc' = "ocrGetPage"
                 /\ log' = log \o settled \o <<Called("ocrGetPage", k)>>
                 /\ UNCHANGED failed
    ELSE /\ ~throws
         /\ i' = k
         /\ EnterFinally(FALSE, settled)
         /\ UNCHANGED <<currentPage, events>>

\* createWorker settles; on success await worker.setParameters(...).
CreateWorkerSettles ==
    /\ pc = "createWorker"
    /\ \E ok \in BOOLEAN :
        IF ok
        THEN /\ worker' = "alive"
             /\ pc' = "setParameters"
             /\ log' = log \o <<Settled("createWorker", 0, TRUE),
                                Called("setParameters", 0)>>
             /\ UNCHANGED outcome
        ELSE /\ Reject
             /\ log' = Append(log, Settled("createWorker", 0, FALSE))
             /\ UNCHANGED worker
    /\ UNCHANGED <<state, view, uploads, input, output, pages, hasProgress, numPages, i, standardText, ocrText,
                   currentPage, failed, canvas, events, loggerCalls>>

\* worker.setParameters settles; on success the try block and its loop begin,
\* on failure the error leaves extractWithOCR before the try block.
SetParametersSettles ==
    /\ pc = "setParameters"
    /\ \E ok \in BOOLEAN, throws \in BOOLEAN :
        /\ throws => ok /\ hasProgress
        /\ IF ok
           THEN /\ OcrLoopHead(1, <<Settled("setParameters", 0, TRUE)>>, throws)
                /\ UNCHANGED outcome
           ELSE /\ Reject
                /\ log' = Append(log, Settled("setParameters", 0, FALSE))
                /\ UNCHANGED <<i, currentPage, events, failed>>
    /\ UNCHANGED <<state, view, uploads, input, output, pages, hasProgress, numPages, standardText, ocrText, worker,
                   canvas, loggerCalls>>

\* pdf.getPage(i) settles in the OCR path; on success renderPageToImage makes
\* the canvas and awaits page.render(...).promise.
OcrGetPageSettles ==
    /\ pc = "ocrGetPage"
    /\ \E ok \in BOOLEAN :
        IF ok
        THEN /\ canvas' = [canvas EXCEPT ![i] = "live"]
             /\ pc' = "render"
             /\ log' = log \o <<Settled("ocrGetPage", i, TRUE), Called("render", i)>>
             /\ UNCHANGED failed
        ELSE /\ EnterFinally(TRUE, <<Settled("ocrGetPage", i, FALSE)>>)
             /\ UNCHANGED canvas
    /\ UNCHANGED <<state, view, uploads, input, output, pages, hasProgress, numPages, i, standardText, ocrText,
                   currentPage, worker, events, loggerCalls, outcome>>

\* A variant of RenderSettles that does not await worker.recognize: the loop
\* goes on to the next page while the recognition is pending.
RenderSettles_NoAwait ==
    /\ pc = "render"
    /\ canvas' = [canvas EXCEPT ![i] = "released"]
    /\ OcrLoopHead(i + 1, <<Settled("render", i, TRUE), Called("recognize", i)>>,
                   FALSE)
    /\ UNCHANGED <<state, view, uploads, input, output, pages, hasProgress, numPages, standardText, ocrText, worker,
                   loggerCalls, outcome>>

\* page.render settles; on success the canvas is preprocessed
\* (preprocessCanvasForOCR, which may throw) and await worker.recognize(canvas).
RenderSettles ==
    /\ pc = "render"
    /\ \E ok \in BOOLEAN, preprocessed \in BOOLEAN :
        /\ ~ok => preprocessed
        /\ IF ok /\ preprocessed
           THEN /\ pc' = "recognize"
                /\ log' = log \o <<Settled("render", i, TRUE), Called("recognize", i)>>
                /\ UNCHANGED failed
           ELSE EnterFinally(TRUE, <<Settled("render", i, ok)>> \o
                                     (IF ok THEN <<Thrown("preprocess", i)>>
                                      ELSE <<>>))
    /\ UNCHANGED <<state, view, uploads, input, output, pages, hasProgress, numPages, i, standardText, ocrText,
                   currentPage, worker, canvas, events, loggerCalls, outcome>>

\* The statuses the recognizer reports to the logger, and when: its loading
\* steps while createWorker is pending, 'recognizing text' while a
\* recognize call is pending.
LoggerStatuses ==
    IF pc = "createWorker" THEN {"loading tesseract core"}
    ELSE IF pc = "recognize" THEN {"recognizing text"}
    ELSE {}

\* info.progress of a report, in thousandths.
LoggerProgress == {0, 505, 1000}

\* A variant of Logger that forwards every report, whatever its status.
Logger_ForwardAll ==
    /\ loggerCalls < MaxLoggerCalls
    /\ \E status \in LoggerStatuses, progress \in LoggerProgress :
        /\ status # "recognizing text" => progress = 0
        /\ events' = IF hasProgress
                     THEN Append(events,
                             ProgressEvent("ocr-recognize",
                                RoundPercent(progress, 1000), currentPage, numPages))
                     ELSE events
    /\ loggerCalls' = loggerCalls + 1
    /\ UNCHANGED <<state, view, uploads, input, output, pages, hasProgress, pc, numPages, i, standardText, ocrText,
                   currentPage, worker, failed, canvas, log, outcome>>

\* The logger given to createWorker is called with info.
Logger ==
    /\ loggerCalls < MaxLoggerCalls
    /\ \E status \in LoggerStatuses, progress \in LoggerProgress :
        /\ status # "recognizing text" => progress = 0
        /\ events' = IF status = "recognizing text" /\ hasProgress
                     THEN Append(events,
                             ProgressEvent("ocr-recognize",
                                RoundPercent(progress, 1000), currentPage, numPages))
                     ELSE events
    /\ loggerCalls' = loggerCalls + 1
    /\ UNCHANGED <<state, view, uploads, input, output, pages, hasProgress, pc, numPages, i, standardText, ocrText,
                   currentPage, worker, failed, canvas, log, outcome>>

\* A variant of RecognizeSettles that leaves the canvas as it is.
RecognizeSettles_NoRelease ==
    /\ pc = "recognize"
    /\ \E ok \in BOOLEAN, throws \in BOOLEAN :
        /\ throws => ok /\ hasProgress /\ i < numPages
        /\ IF ok
           THEN /\ ocrText' = ocrText \o
                       OcrPageContribution(PageOf(pages[i]).ocr, i, numPages)
                /\ OcrLoopHead(i + 1, <<Settled("recognize", i, TRUE)>>, throws)
           ELSE /\ EnterFinally(TRUE, <<Settled("recognize", i, FALSE)>>)
                /\ UNCHANGED <<ocrText, i, currentPage, events>>
    /\ UNCHANGED <<state, view, uploads, input, output, pages, hasProgress, numPages, standardText, worker, canvas,
                   loggerCalls, outcome>>

\* worker.recognize settles; on success the page's text is added to fullText,
\* the canvas is released and the loop goes to the next page or ends.
RecognizeSettles ==
    /\ pc = "recognize"
    /\ \E ok \in BOOLEAN, throws \in BOOLEAN :
        /\ throws => ok /\ hasProgress /\ i < numPages
        /\ IF ok
           THEN /\ ocrText' = ocrText \o
                       OcrPageContribution(PageOf(pages[i]).ocr, i, numPages)
                /\ canvas' = [canvas EXCEPT ![i] = "released"]
                /\ OcrLoopHead(i + 1, <<Settled("recognize", i, TRUE)>>, throws)
           ELSE /\ EnterFinally(TRUE, <<Settled("recognize", i, FALSE)>>)
                /\ UNCHANGED <<ocrText, canvas, i, currentPage, events>>
    /\ UNCHANGED <<state, view, uploads, input, output, pages, hasProgress, numPages, standardText, worker,
                   loggerCalls, outcome>>

\* A variant of TerminateSettles that returns the outcome first and reports
\* 'ocr-done' afterwards.
TerminateSettles_ReturnFirst ==
    \/ /\ pc = "terminate"
       /\ worker' = "terminated"
       /\ log' = Append(log, Settled("terminate", 0, TRUE))
       /\ IF failed
          THEN Reject
          ELSE /\ pc' = "reportDone"
               /\ outcome' = Returned(postProcessText(ocrText), numPages, "ocr")
       /\ UNCHANGED <<state, view, uploads, input, output, pages, hasProgress, numPages, i, standardText, ocrText,
                      currentPage, failed, canvas, events, loggerCalls>>
    \/ /\ pc = "reportDone"
       /\ pc' = "done"
       /\ events' = Delivered(ProgressEvent("ocr-done", 100, numPages, numPages))
       /\ UNCHANGED <<state, view, uploads, input, output, pages, hasProgress, numPages, i, standardText, ocrText,
                      currentPage, worker, failed, canvas, log, loggerCalls,
                      outcome>>

\* worker.terminate() resolves: the finally block ends.  After an exception
\* the error goes on to the caller; else 'ocr-done' is reported,
\* extractWithOCR returns fullText and the outcome is returned.
TerminateSettles ==
    /\ pc = "terminate"
    /\ worker' = "terminated"
    /\ \E throws \in BOOLEAN :
        /\ throws => hasProgress /\ ~failed
        /\ log' = log \o <<Settled("terminate", 0, TRUE)>>
                      \o (IF throws THEN <<Thrown("onProgress", 0)>> ELSE <<>>)
        /\ IF failed
           THEN /\ Reject
                /\ UNCHANGED events
           ELSE /\ events' = Delivered(ProgressEvent("ocr-done", 100,
                                                     numPages, numPages))
                /\ IF throws
                   THEN Reject
                   ELSE /\ pc' = "done"
                        /\ outcome' = Returned(postProcessText(ocrText),
                                               numPages, "ocr")
    /\ UNCHANGED <<state, view, uploads, input, output, pages, hasProgress, numPages, i, standardText, ocrText,
                   currentPage, failed, canvas, loggerCalls>>

Next ==
    \/ Start
    \/ ArrayBufferSettles
    \/ GetDocumentSettles
    \/ StdGetPageSettles
    \/ StdGetTextContentSettles
    \/ Decide
    \/ CreateWorkerSettles
    \/ SetParametersSettles
    \/ OcrGetPageSettles
    \/ RenderSettles
    \/ Logger
    \/ RecognizeSettles
    \/ TerminateSettles

Spec == Init /\ [][Next]_vars

(***************************************************************************)
(* What the log and the events tell of a run.                              *)
(***************************************************************************)
Range(seq) == {seq[k] : k \in 1..Len(seq)}

\* The number of entries of the log equal to entry.
Count(entry) == Cardinality({k \in 1..Len(log) : log[k] = entry})

\* Every page went through the standard path.
StandardPathComplete ==
    /\ numPages > 0
    /\ \A k \in 1..numPages : Settled("getTextContent", k, TRUE) \in Range(log)

\* The operations of the standard path and of the OCR path on a page.
StandardOps == {"getPage", "getTextContent"}

OcrOps == {"ocrGetPage", "render", "recognize"}

\* The operations called and not yet settled.
InFlight ==
    {k \in 1..Len(log) :
        /\ log[k].what = "call"
        /\ ~\E m \in (k + 1)..Len(log) :
              /\ log[m].what \in {"resolve", "reject"}
              /\ log[m].op = log[k].op
              /\ log[m].page = log[k].page}

\* Loading, rasterizing or recognizing page k failed in the OCR path.
OcrPageFailed(k) == \E op \in OcrOps : Settled(op, k, FALSE) \in Range(log)

\* Reading the bytes or getDocument failed.
LoadFailed ==
    \E op \in {"arrayBuffer", "getDocument"} : Settled(op, 0, FALSE) \in Range(log)

\* The text the OCR path hands to the normalizer as the code builds it: the
\* reconstruction of every page whose recognized text is not blank, the
\* page-break marker after every page but the last.
OcrTextWithMarkers(doc) ==
    LET RECURSIVE Upto(_)
        Upto(k) ==
            IF k = 0 THEN <<>>
            ELSE LET data == PageOf(doc[k]).ocr
                 IN  Upto(k - 1)
                       \o (IF Len(Trim(data.text)) > 0
                           THEN reconstructTextFromOCRData(data) ELSE <<>>)
                       \o (IF k < Len(doc) THEN PageBreak ELSE <<>>)
    IN  Upto(Len(doc))

\* The plain concatenation, in page order, of the reconstruction of every page.
OcrTextPlain(doc) ==
    ConcatOver(doc, LAMBDA kind : reconstructTextFromOCRData(PageOf(kind).ocr))

(***************************************************************************)
(* The claims.                                                             *)
(***************************************************************************)
\* C1: when the standard extraction over all pages yields text whose trimmed
\* length is at least 80, the run ends with method "text" or with an error of
\* the progress consumer, and the recognizer is never created: createWorker is
\* never called.
C1_TextBranchNeverRecognizes ==
    (StandardPathComplete /\ Len(Trim(standardText)) >= MIN_TEXT_THRESHOLD) =>
        /\ pc \in {"stdReturn", "done", "rejected"}
        /\ pc = "done" => outcome.status = "returned"
        /\ outcome.status = "returned" => outcome.method = "text"
        /\ pc = "rejected" =>
              \E k \in 1..Len(log) : log[k].what = "throw" /\ log[k].op = "onProgress"
        /\ worker = "none"
        /\ Count(Called("createWorker", 0)) = 0
        /\ \A k \in 1..Len(events) :
              events[k].phase \notin {"ocr-init", "ocr-page", "ocr-recognize", "ocr-done"}

\* C1: a run of a two-page document returned method "text" on at least 80
\* characters of standard text.
C1_Witness ==
    /\ pc = "done"
    /\ outcome.method = "text"
    /\ numPages = 2
    /\ Len(Trim(standardText)) >= MIN_TEXT_THRESHOLD

\* C2 as stated: every returned outcome has method "ocr" exactly when the
\* trimmed standard text is shorter than 80, and then its text is the
\* normalizer applied to the plain concatenation, in page order, of the
\* reconstructions of the pages.
C2_PlainConcatenation ==
    outcome.status = "returned" =>
        /\ outcome.method = "ocr" <=> Len(Trim(standardText)) < MIN_TEXT_THRESHOLD
        /\ outcome.method = "ocr" =>
              outcome.text = postProcessText(OcrTextPlain(pages))

\* C2 as amended: every returned outcome has method "ocr" exactly when the
\* trimmed standard text is shorter than 80, and then its text is the
\* normalizer applied to the concatenation, in page order, of the
\* reconstruction of every page whose recognized text is not blank, with the
\* page-break marker after every page but the last.
C2_NormalizedReconstruction ==
    outcome.status = "returned" =>
        /\ outcome.method = "ocr" <=> Len(Trim(standardText)) < MIN_TEXT_THRESHOLD
        /\ outcome.method = "ocr" =>
              outcome.text = postProcessText(OcrTextWithMarkers(pages))

\* C2: the OCR path of a two-page document completed and returned text.
C2_Witness ==
    /\ pc = "done"
    /\ outcome.method = "ocr"
    /\ numPages = 2
    /\ Len(outcome.text) > 0
    /\ Len(Trim(standardText)) < MIN_TEXT_THRESHOLD

\* C3: every returned outcome has numPages equal to the page count of the
\* loaded document, on both branches and whatever the pages contain.
C3_NumPagesIsPageCount ==
    outcome.status = "returned" => outcome.numPages = Len(pages)

\* C3: an outcome was returned for a two-page document with a blank page.
C3_Witness ==
    /\ outcome.status = "returned"
    /\ Len(pages) = 2
    /\ \E k \in 1..Len(pages) : pages[k] = "blank"

\* C4 as stated: no run ends, by returning or by rejecting, with a recognizer
\* that was acquired and not terminated.
C4_RecognizerAlwaysReleased ==
    pc \in {"done", "rejected"} => worker # "alive"

\* C5: when loading, rasterizing or recognizing page k fails in the OCR path,
\* no later page is loaded, rendered or recognized, the run rejects and returns
\* no outcome, the recognizer is terminated before the run rejects, and no
\* 'ocr-done' event is delivered.
C5_PageFailureAborts ==
    \A k \in 1..MaxPages :
        OcrPageFailed(k) =>
            /\ \A m \in 1..Len(log) : log[m].op \in OcrOps => log[m].page <= k
            /\ pc \in {"terminate", "rejected"}
            /\ outcome.status # "returned"
            /\ pc = "rejected" => worker = "terminated"
            /\ \A m \in 1..Len(events) : events[m].phase # "ocr-done"

\* C5: the recognition of the first page of a two-page document failed and the
\* run rejected.
C5_Witness ==
    /\ pc = "rejected"
    /\ numPages = 2
    /\ Settled("recognize", 1, FALSE) \in Range(log)

\* C6: when reading the bytes or getDocument fails, the run rejects at once
\* after a single attempt: no progress event is delivered, no page is
\* touched, the recognizer is never created and no outcome is returned.
C6_LoadFailureIsFinal ==
    LoadFailed =>
        /\ pc = "rejected"
        /\ outcome = Rejected
        /\ Count(Called("arrayBuffer", 0)) = 1
        /\ Count(Called("getDocument", 0)) <= 1
        /\ events = <<>>
        /\ \A m \in 1..Len(log) : log[m].op \in {"arrayBuffer", "getDocument"}
        /\ worker = "none"

\* C6: getDocument failed on a run with a progress consumer.
C6_Witness ==
    /\ Settled("getDocument", 0, FALSE) \in Range(log)
    /\ hasProgress

\* C7 as stated: no returned outcome has text whose trimmed length is below 80.
C7_NoShortText ==
    outcome.status = "returned" => Len(Trim(outcome.text)) >= MIN_TEXT_THRESHOLD

\* C7 as amended: a run never fails for insufficient text: it rejects only when
\* an awaited operation rejected or a call threw.  An outcome with method
\* "text" is returned only when the standard text, before the normalizer, has
\* a trimmed length of at least 80; the OCR branch returns the normalized text
\* of the OCR path whatever its length.
C7_ShortTextIsReturned ==
    /\ pc = "rejected" => \E m \in 1..Len(log) : log[m].what \in {"reject", "throw"}
    /\ (outcome.status = "returned" /\ outcome.method = "text") =>
          Len(Trim(standardText)) >= MIN_TEXT_THRESHOLD
    /\ (outcome.status = "returned" /\ outcome.method = "ocr") =>
          outcome.text = postProcessText(ocrText)

\* C7: both paths yielded less than 80 characters and the run returned the
\* short text of the OCR path.
C7_Witness ==
    /\ outcome.status = "returned"
    /\ outcome.method = "ocr"
    /\ Len(Trim(standardText)) < MIN_TEXT_THRESHOLD
    /\ Len(Trim(outcome.text)) < MIN_TEXT_THRESHOLD

\* C8: in every run that returns an outcome, either no page was rendered or
\* submitted to the recognizer and the text is that of the standard path
\* (method "text"), or every page was rendered and submitted to the recognizer
\* exactly once and the text is that of the OCR path (method "ocr").
C8_AllOrNothing ==
    outcome.status = "returned" =>
        \/ /\ outcome.method = "text"
           /\ \A k \in 1..MaxPages :
                Count(Called("render", k)) = 0 /\ Count(Called("recognize", k)) = 0
           /\ ocrText = <<>>
           /\ outcome.text = postProcessText(standardText)
        \/ /\ outcome.method = "ocr"
           /\ \A k \in 1..Len(pages) :
                Count(Called("render", k)) = 1 /\ Count(Called("recognize", k)) = 1
           /\ \A m \in 1..Len(log) : log[m].page <= Len(pages)
           /\ outcome.text = postProcessText(ocrText)

\* C8: the OCR path returned an outcome for a two-page document.
C8_Witness ==
    /\ outcome.status = "returned"
    /\ outcome.method = "ocr"
    /\ Len(pages) = 2
    /\ Count(Called("recognize", 2)) = 1

\* C9: within each path the pages are processed one after the other in the
\* order 1, 2, ...: at most one operation is pending at any time (so at most
\* one recognize call), the operations of each path are called on pages in
\* ascending order, starting at page 1 and never skipping a page.
C9_PagesInSequence ==
    /\ Cardinality(InFlight) <= 1
    /\ \A path \in {StandardOps, OcrOps} :
          \A k \in 1..Len(log) :
              (log[k].what = "call" /\ log[k].op \in path) =>
                  /\ \A m \in 1..(k - 1) :
                        log[m].op \in path => log[m].page <= log[k].page
                  /\ \/ log[k].page = 1
                     \/ \E m \in 1..(k - 1) :
                          /\ log[m].op \in path
                          /\ log[m].page \in {log[k].page - 1, log[k].page}

\* C9: the recognition of the second page is pending.
C9_Witness ==
    /\ pc = "recognize"
    /\ i = 2
    /\ \E k \in InFlight : log[k] = Called("recognize", 2)

\* C10: once the outcome is returned no progress event is delivered any more:
\* every event, those forwarded from the logger of the recognizer included,
\* was delivered before.
C10_NoEventAfterOutcome ==
    [][outcome.status = "returned" => events' = events]_vars

\* C10: an outcome was returned after an event forwarded from the logger.
C10_Witness ==
    /\ outcome.status = "returned"
    /\ \E k \in 1..Len(events) : events[k].phase = "ocr-recognize"

\* The positions of the events of a phase, and of a phase and page.
EventsOf(phase) == {m \in 1..Len(events) : events[m].phase = phase}

PageEvents(phase, k) == {m \in EventsOf(phase) : events[m].page = k}

\* p is 100 * a / b rounded to the nearest integer, halves rounded up.
IsRoundedPercent(p, a, b) ==
    /\ 2 * (p * b - 100 * a) <= b
    /\ 2 * (100 * a - p * b) < b

\* The page of the last 'ocr-page' event before position m of events, 0 when
\* there is none.
PageInProgress(m) ==
    LET earlier == {n \in EventsOf("ocr-page") : n < m}
    IN  IF earlier = {} THEN 0
        ELSE events[CHOOSE n \in earlier : \A o \in earlier : o <= n].page

\* The rendered images that hold their pixels.
LiveImages == {k \in 1..MaxPages : canvas[k] = "live"}

\* The number of page-break markers in text.
CountMarkers(text) ==
    Cardinality({p \in 1..Len(text) :
                    /\ p + Len(PageBreak) - 1 <= Len(text)
                    /\ SubSeq(text, p, p + Len(PageBreak) - 1) = PageBreak})

\* C11: with a progress consumer, in the OCR path: (a) before page k is
\* fetched, rendered or recognized, exactly one 'ocr-page' event with page k,
\* totalPages numPages and progress round(100 * (k - 1) / numPages) was
\* delivered; (b) every 'ocr-recognize' event carries the page whose
\* recognition is in progress, totalPages numPages and a percentage in 0..100;
\* (c) when the path completes, every page has its 'ocr-page' event and exactly
\* one 'ocr-done' event with progress 100 is the last event; (d) every report
\* the logger receives while a page is recognized is forwarded as an
\* 'ocr-recognize' event of that page.
C11_OcrProgressEvents ==
    /\ [](hasProgress =>
            /\ \A k \in 1..MaxPages :
                /\ Cardinality(PageEvents("ocr-page", k)) <= 1
                /\ (\E m \in 1..Len(log) : log[m].op \in OcrOps /\ log[m].page = k) =>
                      \E m \in PageEvents("ocr-page", k) :
                          /\ events[m].totalPages = numPages
                          /\ IsRoundedPercent(events[m].progress, k - 1, numPages)
            /\ \A m \in EventsOf("ocr-recognize") :
                /\ events[m].page \in 1..numPages
                /\ events[m].page = PageInProgress(m)
                /\ Count(Called("recognize", events[m].page)) = 1
                /\ events[m].totalPages = numPages
                /\ events[m].progress \in 0..100
            /\ (pc = "done" /\ outcome.method = "ocr") =>
                /\ \A k \in 1..numPages : PageEvents("ocr-page", k) # {}
                /\ EventsOf("ocr-done") = {Len(events)}
                /\ events[Len(events)] =
                      ProgressEvent("ocr-done", 100, numPages, numPages))
    /\ [][(hasProgress /\ pc = "recognize" /\ loggerCalls' # loggerCalls) =>
            /\ Len(events') = Len(events) + 1
            /\ events'[Len(events')].phase = "ocr-recognize"
            /\ events'[Len(events')].page = i]_vars

\* C11: the OCR path of a two-page document completed with a progress
\* consumer, and a report made while page 2 was recognized was forwarded.
C11_Witness ==
    /\ pc = "done"
    /\ hasProgress
    /\ outcome.method = "ocr"
    /\ numPages = 2
    /\ PageEvents("ocr-recognize", 2) # {}
    /\ EventsOf("ocr-done") # {}

\* C12: in the OCR path at most one rendered image holds its pixels at any
\* time: when page k + 1 is fetched or rendered, the image of page k has been
\* released, and it is released only once the recognition of page k resolved.
C12_OneLiveImage ==
    /\ Cardinality(LiveImages) <= 1
    /\ \A k \in 1..MaxPages :
        /\ (\E m \in 1..Len(log) : log[m].op \in OcrOps /\ log[m].page > k) =>
              canvas[k] = "released"
        /\ canvas[k] = "released" => Settled("recognize", k, TRUE) \in Range(log)

\* C12: the image of page 1 is released and that of page 2 holds its pixels.
C12_Witness ==
    /\ canvas[1] = "released"
    /\ canvas[2] = "live"

\* C13 as stated: once the standard path went through the N pages of a
\* document, its text holds exactly N - 1 page-break markers, whether or not
\* the pages have text-bearing runs.
C13_MarkerAfterEveryPage ==
    StandardPathComplete => CountMarkers(standardText) = numPages - 1

(***************************************************************************)
(* The functions of the module applied on their own.  In each of these     *)
(* specifications no run of extractTextFromPDF is in progress: input is    *)
(* drawn from a bounded family of arguments and one action applies the     *)
(* function to it.                                                         *)
(***************************************************************************)
\* No run is in progress and no function has been applied.
NoRun ==
    /\ state = NoFileState
    /\ view = NoFileView
    /\ uploads = <<>>
    /\ pages = <<>>
    /\ hasProgress = FALSE
    /\ pc = "idle"
    /\ numPages = 0
    /\ i = 0
    /\ standardText = <<>>
    /\ ocrText = <<>>
    /\ currentPage = 0
    /\ worker = "none"
    /\ failed = FALSE
    /\ canvas = [k \in 1..MaxPages |-> "none"]
    /\ events = <<>>
    /\ log = <<>>
    /\ loggerCalls = 0
    /\ outcome = Pending
    /\ output = NotApplied

\* What applying a function leaves alone.
RunUnchanged ==
    UNCHANGED <<pages, hasProgress, pc, numPages, i, standardText, ocrText,
                currentPage, worker, failed, canvas, events, log, loggerCalls,
                outcome, input, state, view, uploads>>

\* The digit of a line number.
DigitOf(k) == <<"0", "1", "2", "3", "4", "5", "6", "7", "8", "9">>[k + 1]

\* The pages of two columns: on a page 600 wide, 5 lines the average x of
\* which is leftX (below 42% of the width) and 5 lines the average x of which
\* is rightX (above 80%), 20 units apart vertically, in font size fontSize.
\* order tells which lines are above which; a left line is one run, or two
\* runs 40 apart when split.  Line k from the top of the left column reads
\* L k, that of the right column R k.
ColumnPages ==
    [leftX : {30, 170, 180, 200, 250}, rightX : {481, 540},
     order : {"leftAbove", "interleaved", "rightAbove"},
     fontSize : {8, 12}, split : BOOLEAN]

ColumnPageWidth == 600

\* The items of the text content of a page of ColumnPages, in content order
\* (right column first).
ColumnPageItems(page) ==
    LET Y(col, k) ==
            CASE page.order = "interleaved" ->
                    800 - 20 * (2 * k - (IF col = "L" THEN 1 ELSE 0))
              [] page.order = "leftAbove" ->
                    800 - 20 * (k + (IF col = "L" THEN 0 ELSE 5))
              [] page.order = "rightAbove" ->
                    800 - 20 * (k + (IF col = "L" THEN 5 ELSE 0))
        Item(str, x, y) ==
            [str |-> str, x |-> x, y |-> y, t3 |-> page.fontSize, height |-> 0,
             width |-> 8]
        Left(k) ==
            IF page.split
            THEN << Item(<<DigitOf(k)>>, page.leftX + 20, Y("L", k)),
                    Item(<<"L">>, page.leftX - 20, Y("L", k)) >>
            ELSE << Item(<<"L", DigitOf(k)>>, page.leftX, Y("L", k)) >>
        Right(k) == << Item(<<"R", DigitOf(k)>>, page.rightX, Y("R", k)) >>
    IN  Right(1) \o Right(2) \o Right(3) \o Right(4) \o Right(5)
          \o Left(1) \o Left(2) \o Left(3) \o Left(4) \o Left(5)

LayoutInit ==
    /\ NoRun
    /\ input \in ColumnPages

\* The loop body of extractWithStandardMethod on the only page of a document.
ExtractPage ==
    /\ ~output.applied
    /\ output' = Result(StandardPageContribution(ColumnPageItems(input),
                                                 ColumnPageWidth, 1, 1))
    /\ RunUnchanged

LayoutNext == ExtractPage

LayoutSpec == LayoutInit /\ [][LayoutNext]_vars

\* The non-blank lines of a text, each as the pair of its first and its last
\* character.
LineEnds(text) ==
    LET ls == SelectSeq(SplitLines(text, 1), LAMBDA l : Len(Trim(l)) > 0)
    IN  [k \in 1..Len(ls) |-> <<ls[k][1], ls[k][Len(ls[k])]>>]

\* All the left lines, then all the right lines, each group from the top.
ColumnOrder ==
    [k \in 1..10 |-> IF k <= 5 THEN <<"L", DigitOf(k)>> ELSE <<"R", DigitOf(k - 5)>>]

\* C14 as stated: for every page of 5 lines of average x below 42% of the
\* page width and 5 lines of average x above 80% of it, the page text lists
\* all the left lines before all the right lines, each group from top to
\* bottom.
C14_LeftBelow42Percent ==
    output.applied => LineEnds(output.value) = ColumnOrder

\* C14 as amended: for every page of 5 lines of average x below 30% of the
\* page width and 5 lines of average x above 80% of it, the page text lists
\* all the left lines before all the right lines, each group from top to
\* bottom.
C14_LeftBelow30Percent ==
    (output.applied /\ 10 * input.leftX < 3 * ColumnPageWidth) =>
        LineEnds(output.value) = ColumnOrder

\* C14: the text of a page whose left lines, at 28% of the width, alternate
\* vertically with its right lines was extracted in column order.
C14_Witness ==
    /\ output.applied
    /\ input.leftX = 170
    /\ input.order = "interleaved"
    /\ LineEnds(output.value) = ColumnOrder

\* The largest number of gaps between the runs of a line.
MaxGaps == 2

\* The lines of runs given to buildLineText: the gaps between adjacent runs
\* and avgFontSize as the pair <<sum of the font sizes, their number>>
\* (10, 12, 12.5 and 12.33...).
RunLines ==
    [gaps : UNION {[1..n -> {-2, 0, 1, 2, 4, 18, 19, 22, 23, 170}] : n \in 1..MaxGaps},
     font : {<<10, 1>>, <<12, 1>>, <<25, 2>>, <<37, 3>>}]

\* The items of a line of RunLines, sorted by x: run j reads the digit j, is
\* 20 wide, and the first starts at x = 10.
RunLineItems(line) ==
    LET RECURSIVE X(_)
        X(j) == IF j = 1 THEN 10 ELSE X(j - 1) + 20 + line.gaps[j - 1]
    IN  [j \in 1..(Len(line.gaps) + 1) |->
            [x |-> X(j), text |-> <<DigitOf(j)>>, width |-> 20]]

LineInit ==
    /\ NoRun
    /\ input \in RunLines

\* buildLineText(line.items, avgFontSize)
BuildLine ==
    /\ ~output.applied
    /\ output' = Result(buildLineText(RunLineItems(input), input.font[1],
                                      input.font[2]))
    /\ RunUnchanged

LineNext == BuildLine

LineSpec == LineInit /\ [][LineNext]_vars

\* The number of spaces the spacing rule asks for between two runs gap apart
\* when avgFontSize is fontSum / fontCount and spaceWidth 0.3 avgFontSize: none
\* for gap <= 0.5 spaceWidth, four for gap > 6 spaceWidth, else one.
SpacesFor(gap, fontSum, fontCount) ==
    IF 20 * gap * fontCount <= 3 * fontSum THEN 0
    ELSE IF 10 * gap * fontCount > 18 * fontSum THEN 4
    ELSE 1

\* C15: buildLineText joins the runs of a line sorted by x with, between two
\* adjacent runs, no separator when gap <= 0.5 spaceWidth, exactly one space
\* when 0.5 spaceWidth < gap <= 6 spaceWidth and exactly four spaces when
\* gap > 6 spaceWidth, where spaceWidth = 0.3 avgFontSize.
C15_SpacingByGap ==
    output.applied =>
        output.value =
            ConcatOver([j \in 1..(Len(input.gaps) + 1) |-> j],
                LAMBDA j :
                    (IF j = 1 THEN <<>>
                     ELSE Rep(" ", SpacesFor(input.gaps[j - 1], input.font[1],
                                             input.font[2])))
                    \o <<DigitOf(j)>>)

\* C15: with avgFontSize 10, the runs at x = 10, width 20 and x = 34 were
\* joined by one space and the next run, 170 further, by four.
C15_Witness ==
    /\ output.applied
    /\ input.font = <<10, 1>>
    /\ input.gaps = <<4, 170>>
    /\ output.value = <<"1", " ", "2", " ", " ", " ", " ", "3">>

\* The largest number of words of an OCR line.
MaxWords == 3

\* The lines given to the reconstruction: each word has a confidence and a
\* shape; the word at position j reads the letter j, bare ("plain"), between
\* spaces ("padded") or not at all ("blank": a space only).
OcrLines ==
    UNION {[1..n -> [confidence : {10, 30, 31, 45, 92},
                     shape : {"plain", "padded", "blank"}]] : n \in 1..MaxWords}

LetterOf(j) == <<"a", "b", "c", "d", "e", "f", "g", "h">>[j]

\* The line of the recognition result for a line of OcrLines.
OcrLineOf(line) ==
    [words |->
        [j \in 1..Len(line) |->
            [confidence |-> line[j].confidence,
             text |-> CASE line[j].shape = "plain"  -> <<LetterOf(j)>>
                        [] line[j].shape = "padded" -> <<" ", LetterOf(j), " ">>
                        [] line[j].shape = "blank"  -> <<" ">>]]]

OcrLineInit ==
    /\ NoRun
    /\ input \in OcrLines

\* The word loop of reconstructTextFromOCRData on one line.
ReconstructLine ==
    /\ ~output.applied
    /\ output' = Result(OcrLineText(OcrLineOf(input)))
    /\ RunUnchanged

OcrLineNext == ReconstructLine

OcrLineSpec == OcrLineInit /\ [][OcrLineNext]_vars

\* The positions of the words of the input line that are to be kept: those of
\* confidence above 30 that are not blank.
KeptWords ==
    {j \in 1..Len(input) : input[j].confidence > 30 /\ input[j].shape # "blank"}

\* C16: the reconstructed line consists of exactly the words of confidence
\* above 30 (a word of confidence 30 or less is dropped) that are not blank,
\* in their order, joined by single spaces.
C16_KeepsConfidentWords ==
    output.applied =>
        output.value =
            ConcatOver([j \in 1..Len(input) |-> j],
                LAMBDA j :
                    IF j \notin KeptWords THEN <<>>
                    ELSE (IF \E k \in KeptWords : k < j THEN <<" ">> ELSE <<>>)
                           \o <<LetterOf(j)>>)

\* C16: of three words of confidence 10, 45 and 92 the second and the third
\* were kept, joined by a space.
C16_Witness ==
    /\ output.applied
    /\ Len(input) = 3
    /\ input[1].confidence = 10 /\ input[1].shape = "plain"
    /\ input[2].confidence = 45
    /\ input[3].confidence = 92
    /\ output.value = <<"b", " ", "c">>

\* The largest number of pieces of a text given to the normalizer.
MaxPieces == 4

\* The pieces the texts are made of: a word, a hyphenated line end, a
\* newline, four newlines, two spaces, three spaces, a dash between spaces,
\* a section header on a new line.
Pieces ==
    << <<"a", "b">>,
       <<"c", "-", "\n">>,
       <<"\n">>,
       <<"\n", "\n", "\n", "\n">>,
       <<" ", " ">>,
       <<" ", " ", " ">>,
       <<" ", "-", " ">>,
       <<"\n", "S", "k", "i", "l", "l", "s">> >>

WordPiece == 1

HyphenPiece == 2

NewlinePieces == {3, 4}

SpacePieces == {5, 6}

\* The texts given to the normalizer, each as the sequence of its pieces.
NormalizerInputs == UNION {[1..n -> DOMAIN Pieces] : n \in 1..MaxPieces}

\* The text made of the pieces.
TextOf(pieces) == ConcatOver(pieces, LAMBDA k : Pieces[k])

NormalizerInit ==
    /\ NoRun
    /\ input \in NormalizerInputs

\* postProcessText(text)
Normalize ==
    /\ ~output.applied
    /\ output' = Result(postProcessText(TextOf(input)))
    /\ RunUnchanged

NormalizerNext == Normalize

NormalizerSpec == NormalizerInit /\ [][NormalizerNext]_vars

\* The input is two words with only pieces of the set between them.
TwoWordsAround(between) ==
    /\ Len(input) >= 3
    /\ input[1] = WordPiece
    /\ input[Len(input)] = WordPiece
    /\ \A k \in 2..(Len(input) - 1) : input[k] \in between

\* The number of characters between the two words of such an input.
LengthBetween == Len(TextOf(input)) - 2 * Len(Pieces[WordPiece])

\* The non-blank lines of a text, in order.
NonBlankLines(text) ==
    SelectSeq(SplitLines(text, 1), LAMBDA l : Len(Trim(l)) > 0)

\* C17 as stated, on the texts that are one word hyphenated over several
\* lines (every hyphen and every newline of the text stands between two word
\* characters, as word character, hyphen, newline, word character): the
\* normalizer gives the word on one line, every hyphen and newline removed.
C17_JoinsEveryHyphenation ==
    (/\ output.applied
     /\ Len(input) >= 2
     /\ input[Len(input)] = WordPiece
     /\ \A k \in 1..(Len(input) - 1) : input[k] = HyphenPiece) =>
        output.value = SelectSeq(TextOf(input), LAMBDA c : c \notin {"-", "\n"})

\* C18 as stated, on the texts of two words separated by 4 or more newlines:
\* the normalizer separates the two words by exactly 3 newlines.
C18_CapsBlankLinesAtTwo ==
    (output.applied /\ TwoWordsAround(NewlinePieces) /\ LengthBetween >= 4) =>
        output.value = Pieces[WordPiece] \o <<"\n", "\n", "\n">> \o Pieces[WordPiece]

\* C19 as stated, on the texts of two words separated by spaces: the
\* normalizer separates them by exactly 4 spaces when they were 3 or more
\* apart, and by exactly 1 space when they were 2 apart.
C19_WideGapIsFourSpaces ==
    (output.applied /\ TwoWordsAround(SpacePieces)) =>
        output.value = Pieces[WordPiece]
                         \o (IF LengthBetween >= 3 THEN <<" ", " ", " ", " ">>
                             ELSE <<" ">>)
                         \o Pieces[WordPiece]

\* C20 as stated: the normalizer applied to its own output leaves every
\* non-blank line, its content, its spacing and the order of the lines as
\* they are.
C20_SecondPassKeepsLines ==
    output.applied =>
        NonBlankLines(postProcessText(output.value)) = NonBlankLines(output.value)

(***************************************************************************)
(* The order of a run.                                                     *)
(***************************************************************************)
\* The stage of the orchestrator an operation belongs to.
StageOfOp(op) ==
    CASE op \in {"arrayBuffer", "getDocument"}    -> 1
      [] op \in StandardOps                       -> 2
      [] op \in {"createWorker", "setParameters"} -> 4
      [] op \in OcrOps \cup {"preprocess"}        -> 5
      [] op = "terminate"                         -> 6
      [] OTHER                                    -> 0

\* The stage an event is reported in; the decision is stage 3.
StageOfEvent(event) ==
    CASE event.phase = "text" /\ event.progress = 0       -> 2
      [] event.phase = "text"                             -> 3
      [] event.phase = "ocr-init"                         -> 4
      [] event.phase \in {"ocr-page", "ocr-recognize"}    -> 5
      [] OTHER                                            -> 6

\* The entries of the log that are calls or settlements of operations.
Operations == {m \in 1..Len(log) : StageOfOp(log[m].op) > 0}

\* The text the path taken hands to the normalizer.
RawText == IF outcome.method = "text" THEN standardText ELSE ocrText

\* C22: a run goes through load, standard extraction, decision and then either
\* return or recognizer creation, page recognition and return, never
\* backwards: the operations are called in the order of these stages and the
\* events are delivered in this order; {text, 0} is delivered before any page
\* is touched, {text, 100} once the standard path is over and before the
\* decision takes effect, 'ocr-init' before the recognizer is created; a run
\* that returns method "text" delivered no 'ocr-*' event; the text returned is
\* the normalizer applied once to the text of the path taken, at the step the
\* run ends.
C22_StagesInOrder ==
    /\ \A m, n \in Operations : m < n => StageOfOp(log[m].op) <= StageOfOp(log[n].op)
    /\ \A m, n \in 1..Len(events) :
          m < n => StageOfEvent(events[m]) <= StageOfEvent(events[n])
    /\ hasProgress =>
          /\ (\E m \in Operations : StageOfOp(log[m].op) >= 2) =>
                events # <<>> /\ events[1] = ProgressEvent("text", 0, -1, -1)
          /\ (\E m \in 1..Len(events) : StageOfEvent(events[m]) >= 3) =>
                StandardPathComplete
          /\ (outcome.status = "returned" \/ Count(Called("createWorker", 0)) > 0) =>
                Cardinality({m \in 1..Len(events) :
                                events[m] = ProgressEvent("text", 100, -1, -1)}) = 1
          /\ Count(Called("createWorker", 0)) > 0 =>
                Cardinality(EventsOf("ocr-init")) = 1
    /\ outcome.status = "returned" =>
          /\ pc = "done"
          /\ StandardPathComplete
          /\ outcome.text = postProcessText(RawText)
          /\ outcome.method = "text" =>
                \A m \in 1..Len(events) : events[m].phase = "text"
          /\ outcome.method = "ocr" => Settled("terminate", 0, TRUE) \in Range(log)
    /\ pc = "done" => outcome.status = "returned"

\* C22: a run with a progress consumer went through every stage of the OCR
\* branch of a two-page document and returned.
C22_Witness ==
    /\ pc = "done"
    /\ hasProgress
    /\ outcome.method = "ocr"
    /\ numPages = 2
    /\ Len(outcome.text) > 0
    /\ EventsOf("ocr-init") # {}

\* Fetching page k or reading its text content failed in the standard path.
StandardPageFailed(k) ==
    \E op \in StandardOps : Settled(op, k, FALSE) \in Range(log)

\* C23: when getPage or getTextContent fails for a page in the standard path,
\* the run rejects: no outcome is returned, the OCR path is not entered (the
\* recognizer is never created, no 'ocr-*' event), no later page is touched
\* and {text, 100} is not delivered.  A page without text-bearing runs does
\* not make the run reject: a run rejects only when an operation rejected or a
\* call threw.
C23_StandardPageFailurePropagates ==
    /\ \A k \in 1..MaxPages :
          StandardPageFailed(k) =>
              /\ pc = "rejected"
              /\ outcome = Rejected
              /\ worker = "none"
              /\ Count(Called("createWorker", 0)) = 0
              /\ \A m \in Operations : StageOfOp(log[m].op) <= 2 /\ log[m].page <= k
              /\ \A m \in 1..Len(events) :
                    events[m] = ProgressEvent("text", 0, -1, -1)
    /\ pc = "rejected" => \E m \in 1..Len(log) : log[m].what \in {"reject", "throw"}
    /\ \A k \in 1..Len(pages) :
          (Settled("getTextContent", k, TRUE) \in Range(log) /\ k < numPages) =>
              Count(Called("getPage", k + 1)) = 1

\* C23: reading the text content of the second page failed after a first page
\* without text-bearing runs was passed over.
C23_Witness ==
    /\ pc = "rejected"
    /\ hasProgress
    /\ pages[1] \in {"scan", "blank"}
    /\ Settled("getTextContent", 2, FALSE) \in Range(log)

\* The lines of a text that consist of dashes only.
DashLines(text) ==
    {k \in 1..Len(SplitLines(text, 1)) :
        LET l == Trim(SplitLines(text, 1)[k])
        IN  Len(l) > 0 /\ \A c \in Range(l) : c = "-"}

\* C28: the returned text holds no page-break marker: every marker put
\* between pages by either path stands on a line of its own, which the
\* normalizer empties, so no line of the returned text is made of dashes and
\* the text is the same as if the marker lines had been empty.
C28_MarkerNotInOutcome ==
    outcome.status = "returned" =>
        /\ DashLines(outcome.text) = {}
        /\ CountMarkers(outcome.text) = 0
        /\ CountMarkers(RawText) > 0 => DashLines(RawText) # {}

\* C28: a text with a page-break marker was normalized and returned by the
\* standard path.
C28_Witness ==
    /\ outcome.status = "returned"
    /\ outcome.method = "text"
    /\ CountMarkers(standardText) = 1
    /\ Len(outcome.text) > 0

\* The largest number of runs of a page given to the line grouping.
MaxRuns == 3

\* The pages given to the line grouping: the runs in content order, each at
\* a height y and a position x, all of one font size (10: lineThreshold 4;
\* 4: lineThreshold 2, the minimum).
RunPages ==
    [runs : UNION {[1..n -> [y : {100, 98, 97, 94}, x : {10, 30}]] : n \in 1..MaxRuns},
     fontSize : {4, 10}]

\* The text items of a page of RunPages: run k reads the digit k.
RunPageItems(page) ==
    [k \in 1..Len(page.runs) |->
        [str |-> <<DigitOf(k)>>, x |-> page.runs[k].x, y |-> page.runs[k].y,
         t3 |-> page.fontSize, height |-> 0, width |-> 8]]

GroupingInit ==
    /\ NoRun
    /\ input \in RunPages

\* The sort of the items and their fold into lines in
\* extractWithStandardMethod.
GroupRuns ==
    /\ ~output.applied
    /\ LET items == RunPageItems(input)
           fontSum == SumOver(items, FontSizeOf)
           fontCount == Len(items)
       IN  output' = Result(GroupIntoLines(
                         SortBy(items, LAMBDA a, b : CompareItems(a, b, fontSum, fontCount)),
                         fontSum, fontCount))
    /\ RunUnchanged

GroupingNext == GroupRuns

GroupingSpec == GroupingInit /\ [][GroupingNext]_vars

\* d <= lineThreshold for the input page, where lineThreshold =
\* max(0.4 avgFontSize, 2) and every run has the font size of the page.
WithinLineThreshold(d) == 10 * d <= 4 * input.fontSize \/ d <= 2

\* The lines of the output that hold run k of the input.
LinesOfRun(k) ==
    {l \in 1..Len(output.value) :
        \E e \in 1..Len(output.value[l].items) :
            output.value[l].items[e].text = <<DigitOf(k)>>}

ColumnLines == 4

\* Pages judged two-column, 600 wide: ColumnLines lines at x = 30, as many
\* at x = 400 (x = 250 when wide), each of one run, 8 wide or 400 wide (a
\* span above 60% of the page width); the columns one above the other or
\* line by line.
BucketPages ==
    [order : {"leftAbove", "interleaved", "rightAbove"},
     wideLeft : [1..ColumnLines -> BOOLEAN],
     wideRight : [1..ColumnLines -> BOOLEAN]]

\* The height of line k of a column of a page of BucketPages.
BucketLineY(page, col, k) ==
    CASE page.order = "interleaved" ->
            800 - 20 * (2 * k - (IF col = "L" THEN 1 ELSE 0))
      [] page.order = "leftAbove" ->
            800 - 20 * (k + (IF col = "L" THEN 0 ELSE ColumnLines))
      [] page.order = "rightAbove" ->
            800 - 20 * (k + (IF col = "L" THEN ColumnLines ELSE 0))

\* The items of the text content of a page of BucketPages, in content order
\* (right column first).
BucketPageItems(page) ==
    [n \in 1..(2 * ColumnLines) |->
        LET col == IF n <= ColumnLines THEN "R" ELSE "L"
            k == IF n <= ColumnLines THEN n ELSE n - ColumnLines
            wide == IF col = "L" THEN page.wideLeft[k] ELSE page.wideRight[k]
        IN  [str |-> <<col, DigitOf(k)>>,
             x |-> IF col = "L" THEN 30 ELSE IF wide THEN 250 ELSE 400,
             y |-> BucketLineY(page, col, k),
             t3 |-> 10, height |-> 0,
             width |-> IF wide THEN 400 ELSE 8]]

BucketInit ==
    /\ NoRun
    /\ input \in BucketPages

\* The loop body of extractWithStandardMethod on the only page of a document.
ExtractBuckets ==
    /\ ~output.applied
    /\ output' = Result(StandardPageContribution(BucketPageItems(input),
                                                 ColumnPageWidth, 1, 1))
    /\ RunUnchanged

BucketNext == ExtractBuckets

BucketSpec == BucketInit /\ [][BucketNext]_vars

\* The bucket of the line of a page of BucketPages that reads text: 1 for
\* full width, 2 for the left column, 3 for the right column.
BucketOf(text) ==
    LET k == CHOOSE d \in 1..ColumnLines : DigitOf(d) = text[2]
    IN  IF text[1] = "L" THEN (IF input.wideLeft[k] THEN 1 ELSE 2)
        ELSE (IF input.wideRight[k] THEN 1 ELSE 3)

\* C25: on a page judged two-column the page text holds every line of the
\* page exactly once, the full-width lines before the left-column lines
\* before the right-column lines, each bucket from top to bottom; exactly
\* one blank line stands between the last line of a bucket and the first of
\* the next non-empty one, and there is no other blank line.
C25_ThreeBucketsInOrder ==
    output.applied =>
        LET ls == SplitLines(output.value, 1)
            n == Len(ls) - 1
            YOf(text) ==
                BucketLineY(input, text[1],
                            CHOOSE d \in 1..ColumnLines : DigitOf(d) = text[2])
            Labels == {<<col, DigitOf(k)>> : col \in {"L", "R"}, k \in 1..ColumnLines}
        IN  /\ ls[Len(ls)] = <<>>
            /\ n >= 1 /\ ls[1] # <<>> /\ ls[n] # <<>>
            /\ \A label \in Labels :
                  Cardinality({j \in 1..n : ls[j] = label}) = 1
            /\ \A j \in 1..n : ls[j] = <<>> \/ ls[j] \in Labels
            /\ \A j \in 1..n :
                  ls[j] = <<>> =>
                      /\ ls[j - 1] # <<>> /\ ls[j + 1] # <<>>
                      /\ BucketOf(ls[j - 1]) < BucketOf(ls[j + 1])
            /\ \A j \in 1..(n - 1) :
                  (ls[j] # <<>> /\ ls[j + 1] # <<>>) =>
                      /\ BucketOf(ls[j]) = BucketOf(ls[j + 1])
                      /\ YOf(ls[j]) > YOf(ls[j + 1])

\* C25: a page with full-width lines and right-column lines but no
\* left-column line was emitted, the two buckets one blank line apart.
C25_Witness ==
    /\ output.applied
    /\ \A k \in 1..ColumnLines : input.wideLeft[k]
    /\ \E k \in 1..ColumnLines : ~input.wideRight[k]
    /\ input.order = "interleaved"
    /\ Cardinality({j \in 1..Len(output.value) : output.value[j] = "\n"})
          = 2 * ColumnLines + 1

\* The recognition results of a page of one line of OcrLines: with the block
\* structure or without it (blocks empty).
OcrPages == [line : OcrLines, structured : BOOLEAN]

\* data of worker.recognize for a page of OcrPages: text holds every word
\* of the line, whatever its confidence.
OcrDataOf(page) ==
    LET line == OcrLineOf(page.line)
    IN  [text |-> ConcatOver(line.words, LAMBDA w : w.text \o <<" ">>) \o <<"\n">>,
         blocks |-> IF page.structured
                    THEN << [paragraphs |-> << [lines |-> <<line>>] >>] >>
                    ELSE <<>>]

OcrPageInit ==
    /\ NoRun
    /\ input \in OcrPages

\* The use of data in the loop body of extractWithOCR on the only page of a
\* document.
ReconstructPage ==
    /\ ~output.applied
    /\ output' = Result(OcrPageContribution(OcrDataOf(input), 1, 1))
    /\ RunUnchanged

OcrPageNext == ReconstructPage

OcrPageSpec == OcrPageInit /\ [][OcrPageNext]_vars

\* C26 as stated: when the recognition result has blocks, no word of
\* confidence 30 or less is in the page text, and the page text is empty
\* when every word is of confidence 30 or less.
C26_StructuredTextHasNoDoubtfulWord ==
    (output.applied /\ input.structured) =>
        /\ \A j \in 1..Len(input.line) :
              input.line[j].confidence <= MinConfidence =>
                  \A p \in 1..Len(output.value) : output.value[p] # LetterOf(j)
        /\ (\A j \in 1..Len(input.line) : input.line[j].confidence <= MinConfidence)
              => output.value = <<>>

\* C27 as stated: in the normalizer output every line but the first that
\* starts with a section-header keyword, whatever the case, follows a blank
\* line.
C27_BlankLineBeforeEveryHeader ==
    output.applied =>
        LET ls == SplitLines(output.value, 1)
        IN  \A k \in 2..Len(ls) :
                HeaderMatchLen(ls[k], 1) > 0 => ls[k - 1] = <<>>

\* The luminances of the pixels of the images given to the contrast stretch.
Luminances == <<0, 1, 3, 200, 255>>

\* The images given to the contrast stretch, each as the number of its
\* pixels of each of the Luminances; an image has a pixel at least.
Images ==
    {h \in [1..Len(Luminances) -> {0, 1, 50}] : \E k \in DOMAIN h : h[k] > 0}

\* histogram[gray] of the image h.
HistogramAt(h, gray) ==
    SumOver([k \in 1..Len(Luminances) |-> k],
            LAMBDA k : IF Luminances[k] = gray THEN h[k] ELSE 0)

ContrastInit ==
    /\ NoRun
    /\ input \in Images

\* preprocessCanvasForOCR up to the loop over the histogram: totalPixels,
\* cumulative, lowVal and highVal at their first values.
StartScan ==
    /\ output = NotApplied
    /\ output' = [applied |-> FALSE,
                  value |-> [i |-> 0, cumulative |-> 0, lowVal |-> 0,
                             highVal |-> 255, scanned |-> FALSE,
                             totalPixels |-> SumOver(input, LAMBDA n : n)]]
    /\ RunUnchanged

\* One turn of the loop over the histogram; the comparisons with
\* totalPixels * 0.02 and totalPixels * 0.98 are made on integers.
ScanBin ==
    /\ output # NotApplied
    /\ ~output.applied
    /\ ~output.value.scanned
    /\ LET v == output.value
           cumulative == v.cumulative + HistogramAt(input, v.i)
           lowVal == IF 100 * cumulative >= 2 * v.totalPixels /\ v.lowVal = 0
                     THEN v.i ELSE v.lowVal
           break == 100 * cumulative >= 98 * v.totalPixels
       IN  output' =
              [output EXCEPT
                  !.value = [v EXCEPT
                      !.cumulative = cumulative,
                      !.lowVal = lowVal,
                      !.highVal = IF break THEN v.i ELSE v.highVal,
                      !.i = IF break THEN v.i ELSE v.i + 1,
                      !.scanned = break \/ v.i + 1 = 256]]
    /\ RunUnchanged

\* gray after the contrast stretch and the clamp:
\* Math.max(0, Math.min(255, Math.round(((gray - lowVal) / range) * 255))),
\* Math.round(x) being the floor of x + 1/2.
Stretch(gray, lowVal, highVal) ==
    LET range == IF highVal - lowVal = 0 THEN 1 ELSE highVal - lowVal
        rounded == (2 * (gray - lowVal) * 255 + range) \div (2 * range)
    IN  Max2(0, Min2(255, rounded))

\* The loop over the pixels, up to the clamp: the stretched gray of the
\* pixels of each luminance.
StretchPixels ==
    /\ output # NotApplied
    /\ ~output.applied
    /\ output.value.scanned
    /\ output' = Result([lowVal |-> output.value.lowVal,
                         highVal |-> output.value.highVal,
                         gray |-> [k \in 1..Len(Luminances) |->
                                      Stretch(Luminances[k], output.value.lowVal,
                                              output.value.highVal)]])
    /\ RunUnchanged

ContrastNext == StartScan \/ ScanBin \/ StretchPixels

ContrastSpec == ContrastInit /\ [][ContrastNext]_vars

\* C29 as stated: lowVal is the smallest luminance at which the cumulative
\* pixel count reaches 2% of the pixels, highVal the smallest at which it
\* reaches 98%, lowVal <= highVal, and every pixel becomes
\* (v - lowVal) / max(1, highVal - lowVal) * 255, rounded and clamped to
\* 0..255.
C29_PercentileStretch ==
    output.applied =>
        LET total == SumOver(input, LAMBDA n : n)
            Cumulative(v) ==
                SumOver([k \in 1..Len(Luminances) |-> k],
                        LAMBDA k : IF Luminances[k] <= v THEN input[k] ELSE 0)
            Percentile(q) ==
                CHOOSE v \in 0..255 :
                    /\ 100 * Cumulative(v) >= q * total
                    /\ \A w \in 0..(v - 1) : 100 * Cumulative(w) < q * total
            lowVal == output.value.lowVal
            highVal == output.value.highVal
        IN  /\ lowVal = Percentile(2)
            /\ highVal = Percentile(98)
            /\ lowVal <= highVal
            /\ \A k \in 1..Len(Luminances) :
                  output.value.gray[k] =
                      Max2(0, Min2(255,
                          (2 * (Luminances[k] - lowVal) * 255 + Max2(1, highVal - lowVal))
                              \div (2 * Max2(1, highVal - lowVal))))

\* The largest number of calls of handleFileUpload.
MaxUploads == 2

\* The files the user may choose, by name: the type, the size, and what
\* extractTextFromPDF does for the file: it returns 80 characters of text, or
\* 50, 49 or 0 characters read from images, or it rejects.
Files ==
    [text     |-> [type |-> "application/pdf", size |-> 2048,
                   extraction |-> Returned(Rep("a", 80), 1, "text")],
     scan50   |-> [type |-> "application/pdf", size |-> 2048,
                   extraction |-> Returned(Rep("b", 50), 2, "ocr")],
     scan49   |-> [type |-> "application/pdf", size |-> 2048,
                   extraction |-> Returned(Rep("c", 49), 2, "ocr")],
     blank    |-> [type |-> "application/pdf", size |-> 2048,
                   extraction |-> Returned(<<>>, 1, "ocr")],
     broken   |-> [type |-> "application/pdf", size |-> 2048,
                   extraction |-> Rejected],
     picture  |-> [type |-> "image/png", size |-> 2048,
                   extraction |-> Rejected],
     huge     |-> [type |-> "application/pdf", size |-> 10 * 1024 * 1024 + 1,
                   extraction |-> Returned(Rep("a", 80), 1, "text")]]

\* What a step of the page leaves alone: the extractor and the functions.
ExtractorUnchanged ==
    UNCHANGED <<pages, hasProgress, pc, numPages, i, standardText, ocrText,
                currentPage, worker, failed, canvas, events, log, loggerCalls,
                outcome, input, output>>

UploadInit ==
    /\ NoRun
    /\ input = <<>>

\* A variant of Sufficient that asks for more than 50 characters.
Sufficient_Above(text) == Len(text) > 0 /\ Len(Trim(text)) > 50

\* result.text && result.text.trim().length >= 50
Sufficient(text) == Len(text) > 0 /\ Len(Trim(text)) >= 50

\* handleFileUpload(file) up to its await, on a drop or a change of the file
\* input, the drop zone being in view: the checks of the file, state and
\* the elements of step 1, and the call of extractTextFromPDF.
HandleFileUpload(file) ==
    /\ ~view.dropZoneHidden
    /\ Len(uploads) < MaxUploads
    /\ IF Files[file].type # "application/pdf" \/ Files[file].size > 10 * 1024 * 1024
       THEN /\ uploads' = Append(uploads, [file |-> file, pc |-> "fulfilled"])
            /\ UNCHANGED <<state, view>>
       ELSE /\ state' = [state EXCEPT !.uploadedFile = file]
            /\ view' = [view EXCEPT !.dropZoneHidden = TRUE,
                                    !.filePreviewHidden = FALSE,
                                    !.extractedHidden = FALSE,
                                    !.manualHidden = TRUE,
                                    !.extractedTextEl = <<"waiting">>,
                                    !.nextDisabled = TRUE]
            /\ uploads' = Append(uploads, [file |-> file, pc |-> "extracting"])
    /\ ExtractorUnchanged

\* The progress callback of call k of handleFileUpload, called with a status
\* of the phase.
OnProgress(k, phase) ==
    /\ uploads[k].pc = "extracting"
    /\ view' = [view EXCEPT !.extractedTextEl = <<phase>>]
    /\ UNCHANGED <<state, uploads>>
    /\ ExtractorUnchanged

\* extractTextFromPDF settles for call k of handleFileUpload, which runs to
\* its end: the try block after the await, or the catch block.
ExtractionSettles(k) ==
    /\ uploads[k].pc = "extracting"
    /\ LET result == Files[uploads[k].file].extraction
           manual == [view EXCEPT !.extractedHidden = TRUE,
                                  !.manualHidden = FALSE,
                                  !.nextDisabled = TRUE]
       IN  IF result.status = "rejected"
           THEN /\ state' = [state EXCEPT !.isImageBased = TRUE]
                /\ view' = manual
           ELSE IF Sufficient(result.text)
           THEN /\ state' = [state EXCEPT !.extractedText = result.text,
                                          !.numPages = result.numPages,
                                          !.isImageBased = (result.method = "ocr")]
                /\ view' = [view EXCEPT !.extractedHidden = FALSE,
                                        !.manualHidden = TRUE,
                                        !.extractedTextEl = result.text,
                                        !.nextDisabled = FALSE]
           ELSE /\ state' = [state EXCEPT !.extractedText = result.text,
                                          !.numPages = result.numPages,
                                          !.isImageBased = TRUE]
                /\ view' = manual
    /\ uploads' = [uploads EXCEPT ![k].pc = "fulfilled"]
    /\ ExtractorUnchanged

\* resetFile(), on a click of the remove button of the file preview.
ResetFile ==
    /\ ~view.filePreviewHidden
    /\ state' = NoFileState
    /\ view' = [view EXCEPT !.dropZoneHidden = FALSE,
                            !.filePreviewHidden = TRUE,
                            !.extractedHidden = FALSE,
                            !.manualHidden = TRUE,
                            !.nextDisabled = TRUE]
    /\ UNCHANGED uploads
    /\ ExtractorUnchanged

UploadNext ==
    \/ \E file \in DOMAIN Files : HandleFileUpload(file)
    \/ \E k \in DOMAIN uploads :
          \E phase \in {"text", "ocr-init", "ocr-page", "ocr-recognize", "ocr-done"} :
              OnProgress(k, phase)
    \/ \E k \in DOMAIN uploads : ExtractionSettles(k)
    \/ ResetFile

UploadSpec == UploadInit /\ [][UploadNext]_vars

\* C21: when the extraction of a call of handleFileUpload settles, the call
\* ends without an error; if the extraction rejected or returned a text that
\* is empty or of fewer than 50 characters, the manual input is in view, the
\* extracted text is hidden, the Next button is disabled and
\* state.isImageBased is true; otherwise the extracted text is in view, it
\* is the text returned, and the Next button is enabled.
C21_ManualFallback ==
    [][\A k \in DOMAIN uploads :
          (uploads[k].pc = "extracting" /\ uploads'[k].pc # "extracting") =>
              LET result == Files[uploads[k].file].extraction
              IN  /\ uploads'[k].pc = "fulfilled"
                  /\ IF result.status = "rejected" \/ Len(Trim(result.text)) < 50
                     THEN /\ ~view'.manualHidden
                          /\ view'.extractedHidden
                          /\ view'.nextDisabled
                          /\ state'.isImageBased
                     ELSE /\ ~view'.extractedHidden
                          /\ view'.manualHidden
                          /\ view'.extractedTextEl = result.text
                          /\ ~view'.nextDisabled]_vars

\* C21: the extraction of a file rejected, and the call of handleFileUpload
\* ended with the manual input in view.
C21_Witness ==
    /\ Len(uploads) = 1
    /\ uploads[1] = [file |-> "broken", pc |-> "fulfilled"]
    /\ ~view.manualHidden
    /\ view.extractedHidden
    /\ state.isImageBased

\* C30 as stated: once no extraction is running, state.extractedText,
\* state.numPages and state.isImageBased are those of the extraction of
\* state.uploadedFile when it returned, and after resetFile with no later
\* upload state.extractedText is empty.
C30_StateIsOfLatestAction ==
    (\A k \in DOMAIN uploads : uploads[k].pc # "extracting") =>
        IF state.uploadedFile = "null"
        THEN state.extractedText = <<>> /\ state.numPages = 0
        ELSE LET result == Files[state.uploadedFile].extraction
             IN  result.status = "returned" =>
                     /\ state.extractedText = result.text
                     /\ state.numPages = result.numPages
                     /\ state.isImageBased =
                            (result.method = "ocr" \/ ~Sufficient(result.text))

=============================================================================
